---- MODULE Spec2Model ----
(***************************************************************************)
(* HD44780 character LCD behind a PCF8574 I2C backpack.                    *)
(*                                                                         *)
(*   py_hd44780_i2c_pcf8574/lcdx.py   HD44780_PCF8574  (protocol driver)   *)
(*   py_hd44780_i2c_pcf8574/lcds.py   LCDS             (buffered screen)   *)
(*                                                                         *)
(* Characters are Unicode code points (ord(ch)); a Python string is a      *)
(* sequence of code points.  Lists indexed from 0 in the source are        *)
(* functions over 0..n-1 here.                                             *)
(***************************************************************************)
EXTENDS Integers, Sequences, FiniteSets, TLC

(***************************************************************************)
(* Geometry of the checked configuration (LCDSConfig.cols / rows; LCDS     *)
(* copies HD44780Config.cols / rows when no config is passed).             *)
(***************************************************************************)
Cols == 3
Rows == 2

Size == Cols * Rows
Cells == 0 .. (Size - 1)

None == -1            \* Python None in _dyn_slot_to_char
Empty == -2           \* the empty string "" (a falsy `ch`)
NUL == 0              \* "\0", the shadow's initial filler
Blank == 32           \* " "
Newline == 10         \* "\n"
Question == 63        \* "?"

NumSlots == 8         \* CGRAM slots, range(8)
FullMask == 255       \* 0xFF
NoLastWritten == 0 - 10000   \* last_written = -10_000

Slots == 0 .. (NumSlots - 1)

Min(S) == CHOOSE x \in S : \A y \in S : x <= y
Max(S) == CHOOSE x \in S : \A y \in S : x >= y
Max2(a, b) == IF a >= b THEN a ELSE b
Min2(a, b) == IF a <= b THEN a ELSE b

Restrict(f, S) == [x \in S |-> f[x]]

\* F applied to the value of v, v evaluated once
Bind(v, F(_)) == CHOOSE r \in {F(x) : x \in {v}} : TRUE

(***************************************************************************)
(* _default_dynamic_charset(): ch -> DynamicCharDef(pattern, alt)          *)
(***************************************************************************)
DynCharset ==
     261 :> [pattern |-> <<0, 14, 1, 15, 17, 15, 2, 1>>,   alt |-> 97]    \* a-ogonek
  @@ 260 :> [pattern |-> <<14, 17, 17, 31, 17, 17, 2, 1>>, alt |-> 65]    \* A-ogonek
  @@ 263 :> [pattern |-> <<2, 4, 14, 16, 16, 17, 14, 0>>,  alt |-> 99]    \* c-acute
  @@ 262 :> [pattern |-> <<2, 4, 14, 17, 16, 17, 14, 0>>,  alt |-> 67]    \* C-acute
  @@ 281 :> [pattern |-> <<0, 14, 17, 31, 16, 14, 2, 1>>,  alt |-> 101]   \* e-ogonek
  @@ 280 :> [pattern |-> <<31, 16, 28, 16, 16, 31, 2, 1>>, alt |-> 69]    \* E-ogonek
  @@ 322 :> [pattern |-> <<12, 4, 6, 4, 12, 4, 14, 0>>,    alt |-> 108]   \* l-stroke
  @@ 321 :> [pattern |-> <<8, 8, 10, 12, 24, 8, 15, 0>>,   alt |-> 76]    \* L-stroke
  @@ 324 :> [pattern |-> <<2, 4, 22, 25, 17, 17, 17, 0>>,  alt |-> 110]   \* n-acute
  @@ 323 :> [pattern |-> <<2, 21, 17, 25, 21, 19, 17, 0>>, alt |-> 78]    \* N-acute
  @@ 243 :> [pattern |-> <<2, 4, 14, 17, 17, 17, 14, 0>>,  alt |-> 111]   \* o-acute
  @@ 211 :> [pattern |-> <<2, 4, 14, 17, 17, 17, 14, 0>>,  alt |-> 79]    \* O-acute
  @@ 347 :> [pattern |-> <<2, 4, 14, 16, 14, 1, 30, 0>>,   alt |-> 115]   \* s-acute
  @@ 346 :> [pattern |-> <<2, 4, 15, 16, 30, 1, 30, 0>>,   alt |-> 83]    \* S-acute
  @@ 380 :> [pattern |-> <<2, 4, 31, 2, 4, 8, 31, 0>>,     alt |-> 122]   \* z-dot
  @@ 379 :> [pattern |-> <<2, 4, 31, 2, 4, 8, 31, 0>>,     alt |-> 90]    \* Z-dot
  @@ 378 :> [pattern |-> <<4, 0, 31, 2, 4, 8, 31, 0>>,     alt |-> 122]   \* z-acute
  @@ 377 :> [pattern |-> <<4, 0, 31, 2, 4, 8, 31, 0>>,     alt |-> 90]    \* Z-acute
  @@ 177 :> [pattern |-> <<4, 4, 31, 4, 4, 0, 31, 0>>,     alt |-> 32]    \* plus-minus
  @@ 187 :> [pattern |-> <<0, 20, 10, 5, 10, 20, 0, 0>>,   alt |-> 62]    \* guillemet
  @@ 176 :> [pattern |-> <<6, 9, 9, 6, 0, 0, 0, 0>>,       alt |-> 42]    \* degree
  @@ 92  :> [pattern |-> <<16, 8, 4, 2, 1, 0, 0, 0>>,      alt |-> 47]    \* backslash

Catalog == DOMAIN DynCharset

VARIABLES
  use_dynamic_chars,   \* LCDSConfig.use_dynamic_chars
  buf,                 \* LCDS._buf
  shadow,              \* LCDS._shadow
  puts_line,           \* LCDS._puts_line
  dyn_char_to_slot,    \* LCDS._dyn_char_to_slot
  dyn_slot_to_char,    \* LCDS._dyn_slot_to_char
  dyn_used_mask,       \* LCDS._dyn_used_mask
  dyn_rotate_index,    \* LCDS._dyn_rotate_index
  it,                  \* HD44780_PCF8574._it
  mapping,             \* HD44780_PCF8574._mapping
  pcf_state,           \* HD44780_PCF8574._pcf_state
  backlight_on,        \* HD44780_PCF8574._backlight_on
  bus,                 \* history: bytes passed to i2c_write by the last operation
                       \*          called on the driver itself
  raised,              \* history: the exception that operation ended with
  fault,               \* history: <<n, err>>, the bus raised err at the n-th write
                       \*          of that operation (0: the bus did not fail)
  lastOp,              \* history: the operation that produced this state
  calls,               \* history: driver calls issued by that operation
  hist,                \* history: glyph cache bookkeeping since it was last empty
  run,                 \* history: the current run of consecutive curright() calls
  menu,                \* the root Menu with the widgets of its lines
  mrv,                 \* history: what the last Menu.menu_action returned
  mlog,                \* history: line actions, delegations and observer calls of it
  rendered,            \* history: what the last Menu.render or widget print returned
  widget,              \* a widget used on its own (Edit, RangeItem, EnumItem, TimeItem)
  ctrl                 \* the HD44780 controller that the driver calls of flush() and
                       \*          of the cursor operations reach; NoCtrl where the
                       \*          display is not observed (the driver never reads it)

vars == <<use_dynamic_chars, buf, shadow, puts_line, dyn_char_to_slot,
          dyn_slot_to_char, dyn_used_mask, dyn_rotate_index, it,
          mapping, pcf_state, backlight_on, bus, raised, fault,
          lastOp, calls, hist, run, menu, mrv, mlog, rendered, widget, ctrl>>

lcdsVars == <<use_dynamic_chars, buf, shadow, puts_line, dyn_char_to_slot,
              dyn_slot_to_char, dyn_used_mask, dyn_rotate_index>>

cacheVars == <<dyn_char_to_slot, dyn_slot_to_char, dyn_used_mask, dyn_rotate_index>>

busVars == <<mapping, pcf_state, backlight_on, bus, raised, fault>>

menuVars == <<menu, mrv, mlog, rendered, widget>>


(***************************************************************************)
(* Bit arithmetic on the used-slot mask (ints used as bit sets).           *)
(***************************************************************************)
Bit(mask, slot) == (mask \div (2 ^ slot)) % 2 = 1
SetBit(mask, slot) == IF Bit(mask, slot) THEN mask ELSE mask + (2 ^ slot)
ClearBit(mask, slot) == IF Bit(mask, slot) THEN mask - (2 ^ slot) ELSE mask
PopCount(mask) == Cardinality({s \in Slots : Bit(mask, s)})

(***************************************************************************)
(* LCDS buffer operations.  Each takes the buffer (and the remembered      *)
(* line) and returns the new value.                                        *)
(***************************************************************************)

\* LCDS.clear
Clear(b) == [i \in Cells |-> Blank]

\* LCDS.clear_line: the row is clamped into 0..rows-1
ClearLine(b, row) ==
  LET r == Max2(0, Min2(Rows - 1, row))
      start == r * Cols
  IN  [i \in Cells |-> IF i >= start /\ i < start + Cols THEN Blank ELSE b[i]]

\* write_at without `text = text[:max_len]`
WriteAtNoTruncation(b, col, row, text) ==
  IF row < 0 \/ row >= Rows THEN b
  ELSE LET c == IF col < 0 THEN 0 ELSE col
       IN  IF c >= Cols THEN b
           ELSE LET start == row * Cols + c
                IN  [i \in Cells |->
                       IF i >= start /\ i < start + Len(text)
                       THEN text[i - start + 1] ELSE b[i]]

\* LCDS.write_at
WriteAt(b, col, row, text) ==
  IF row < 0 \/ row >= Rows THEN b
  ELSE LET c == IF col < 0 THEN 0 ELSE col
       IN  IF c >= Cols THEN b
           ELSE IF Len(text) = 0 THEN b
           ELSE LET max_len == Cols - c
                    t == SubSeq(text, 1, Min2(Len(text), max_len))
                    start == row * Cols + c
                IN  [i \in Cells |->
                       IF i >= start /\ i < start + Len(t)
                       THEN t[i - start + 1] ELSE b[i]]

\* the loop of LCDS.puts over text[k..], carrying (buffer, line, col)
RECURSIVE PutsLoop(_, _, _, _, _)
PutsLoop(b, line, col, text, k) ==
  IF k > Len(text) THEN [buf |-> b, line |-> line]
  ELSE IF text[k] = Newline
       THEN PutsLoop(b, (line + 1) % Rows, 0, text, k + 1)
       ELSE PutsLoop([b EXCEPT ![line * Cols + col] = text[k]],
                     line, (col + 1) % Cols, text, k + 1)

\* puts that clears row 0 instead of the remembered row
PutsClearsFirstRow(b, pl, text) ==
  IF Len(text) = 0 THEN [buf |-> b, line |-> pl]
  ELSE PutsLoop(ClearLine(b, 0), pl, 0, text, 1)

\* LCDS.puts
Puts(b, pl, text) ==
  IF Len(text) = 0 THEN [buf |-> b, line |-> pl]
  ELSE PutsLoop(ClearLine(b, pl), pl, 0, text, 1)

(***************************************************************************)
(* Glyph cache.  A cache value c is the record of the four _dyn_* fields.  *)
(***************************************************************************)
Cache == [char_to_slot |-> dyn_char_to_slot, slot_to_char |-> dyn_slot_to_char,
          used_mask |-> dyn_used_mask, rotate_index |-> dyn_rotate_index]

\* the state LCDS.__init__ and LCDS.reset_dynamic_chars establish
EmptyMap == [x \in {} |-> None]

EmptyCache == [char_to_slot |-> EmptyMap, slot_to_char |-> [s \in Slots |-> None],
               used_mask |-> 0, rotate_index |-> 0]

\* aging that never frees a slot
AgeNever(c) == c

\* aging that frees a slot but does not advance the rotation
AgeNoRotate(c) ==
  IF c.used_mask = FullMask
    THEN [c EXCEPT !.used_mask = ClearBit(c.used_mask, c.rotate_index)]
    ELSE c

\* aging that frees a slot of any non-empty mask
AgeAlways(c) ==
  IF c.used_mask # 0
    THEN [c EXCEPT !.used_mask = ClearBit(c.used_mask, c.rotate_index),
                   !.rotate_index = (c.rotate_index + 1) % NumSlots]
    ELSE c

\* LCDS._age_dynamic_mask_if_full
AgeDynamicMaskIfFull(c) ==
  IF c.used_mask = FullMask
    THEN [c EXCEPT !.used_mask = ClearBit(c.used_mask, c.rotate_index),
                   !.rotate_index = (c.rotate_index + 1) % NumSlots]
    ELSE c

\* allocation that ignores an existing mapping of ch
AllocAlwaysNew(c, ch) ==
  LET free == {s \in Slots : ~Bit(c.used_mask, s)}
  IN  IF free = {}
        THEN [ok |-> FALSE, slot |-> None, created |-> FALSE, cache |-> c]
      ELSE LET slot == Min(free)
               old == c.slot_to_char[slot]
               kept == IF old # None
                         THEN Restrict(c.char_to_slot, DOMAIN c.char_to_slot \ {old})
                         ELSE c.char_to_slot
           IN  [ok |-> TRUE, slot |-> slot, created |-> TRUE,
                cache |-> [char_to_slot |-> (ch :> slot) @@ kept,
                           slot_to_char |-> [c.slot_to_char EXCEPT ![slot] = ch],
                           used_mask |-> SetBit(c.used_mask, slot),
                           rotate_index |-> c.rotate_index]]

\* LCDS._alloc_dynamic_slot: [ok, slot, created, cache]; ok = FALSE is the
\* None result; created says that create_char(slot, pattern) is called.
AllocDynamicSlot(c, ch) ==
  IF ch \in DOMAIN c.char_to_slot
    THEN [ok |-> TRUE, slot |-> c.char_to_slot[ch], created |-> FALSE, cache |-> c]
  ELSE LET free == {s \in Slots : ~Bit(c.used_mask, s)}
       IN  IF free = {}
             THEN [ok |-> FALSE, slot |-> None, created |-> FALSE, cache |-> c]
           ELSE LET slot == Min(free)
                    old == c.slot_to_char[slot]
                    kept == IF old # None
                              THEN Restrict(c.char_to_slot, DOMAIN c.char_to_slot \ {old})
                              ELSE c.char_to_slot
                    nc == [char_to_slot |-> (ch :> slot) @@ kept,
                           slot_to_char |-> [c.slot_to_char EXCEPT ![slot] = ch],
                           used_mask |-> SetBit(c.used_mask, slot),
                           rotate_index |-> c.rotate_index]
                IN  IF ch \notin Catalog
                      THEN [ok |-> FALSE, slot |-> None, created |-> FALSE, cache |-> nc]
                      ELSE [ok |-> TRUE, slot |-> slot, created |-> TRUE, cache |-> nc]

\* the tail of LCDS._encode_for_lcd: the code of a character sent as it is
PlainCode(ch) ==
  IF ch = Empty THEN Blank
  ELSE IF 0 <= ch /\ ch <= 255 THEN ch
  ELSE Question

\* LCDS._encode_for_lcd: [code, cursor_reset, cache] and, for the history,
\* whether a slot was asked for (alloc), created, or the fallback was taken
EncodeForLcd(c, ch, dynamic) ==
  IF dynamic /\ ch \in Catalog
    THEN Bind(AllocDynamicSlot(c, ch), LAMBDA a :
           IF a.ok
             THEN [code |-> a.slot, cursor_reset |-> a.created, cache |-> a.cache,
                   alloc |-> TRUE, created |-> a.created, fallback |-> FALSE]
             ELSE [code |-> PlainCode(DynCharset[ch].alt), cursor_reset |-> FALSE,
                   cache |-> a.cache,
                   alloc |-> TRUE, created |-> FALSE, fallback |-> TRUE])
    ELSE [code |-> PlainCode(ch), cursor_reset |-> FALSE, cache |-> c,
          alloc |-> FALSE, created |-> FALSE, fallback |-> FALSE]

(***************************************************************************)
(* Driver side needed by flush(): HD44780_PCF8574.set_cursor.              *)
(***************************************************************************)
RECURSIVE BitOr(_, _)
BitOr(a, b) ==
  IF a = 0 THEN b
  ELSE IF b = 0 THEN a
  ELSE (IF a % 2 = 1 \/ b % 2 = 1 THEN 1 ELSE 0) + 2 * BitOr(a \div 2, b \div 2)

LCDC_DDA == 128                    \* 0x80
RowOffsets == <<0, 64, 20, 84>>    \* _row_offsets = [0x00, 0x40, 0x14, 0x54]

DefaultCols == 16                  \* HD44780Config.cols

\* set_cursor that clamps neither the column nor the row from above
SetCursorClampsBelowOnly(cols, rows, col, row) ==
  LET r == IF row < 0 THEN 0 ELSE row
      c == IF col < 0 THEN 0 ELSE col
  IN  [cmd |-> BitOr(LCDC_DDA, c + RowOffsets[(r % Len(RowOffsets)) + 1]) % 256,
       it |-> r * cols + c]

\* HD44780_PCF8574.set_cursor on a driver configured cols x rows: the command
\* byte and the new linear index
SetCursorOn(cols, rows, col, row) ==
  LET r0 == IF row < 0 THEN 0 ELSE row
      c0 == IF col < 0 THEN 0 ELSE col
      r == IF r0 >= rows THEN rows - 1 ELSE r0
      c == IF c0 >= cols THEN cols - 1 ELSE c0
  IN  [cmd |-> BitOr(LCDC_DDA, c + RowOffsets[r + 1]) % 256,
       it |-> r * cols + c]

\* HD44780_PCF8574.set_cursor on the driver of the checked configuration
SetCursor(col, row) == SetCursorOn(Cols, Rows, col, row)

LCDC_CLS == 1                      \* 0x01
LCDC_HOME == 2                     \* 0x02

\* HD44780_PCF8574.command / write_char as entries of the call log
Command(cmd) == [op |-> "command", value |-> cmd % 256]
Data(ch) == [op |-> "data", value |-> ch % 256]

\* The cursor helpers of the driver from linear index i: the bytes they send
\* and the linear index they leave, [it, calls].
Line1(i) == [it |-> 0, calls |-> <<Command(LCDC_DDA)>>]

Line2(i) ==
  IF Rows < 2 THEN [it |-> i, calls |-> <<>>]
  ELSE [it |-> Cols, calls |-> <<Command(BitOr(LCDC_DDA, 64))>>]

Gotoxy(i, x, y) ==
  IF x < 0 \/ x >= Cols THEN [it |-> i, calls |-> <<>>]
  ELSE IF y < 0 \/ y >= Rows THEN [it |-> i, calls |-> <<>>]
  ELSE [it |-> SetCursor(x, y).it, calls |-> <<Command(SetCursor(x, y).cmd)>>]

Up(i) ==
  LET col == i % Cols
      row == i \div Cols
  IN  IF row <= 0 THEN [it |-> i, calls |-> <<>>]
      ELSE [it |-> SetCursor(col, row - 1).it,
            calls |-> <<Command(SetCursor(col, row - 1).cmd)>>]

Down(i) ==
  LET col == i % Cols
      row == i \div Cols
  IN  IF row >= Rows - 1 THEN [it |-> i, calls |-> <<>>]
      ELSE [it |-> SetCursor(col, row + 1).it,
            calls |-> <<Command(SetCursor(col, row + 1).cmd)>>]

Curleft(i) ==
  IF Size <= 0 THEN [it |-> 0, calls |-> <<>>]
  ELSE LET n == IF i - 1 < 0 THEN Size - 1 ELSE i - 1
       IN  [it |-> SetCursor(n % Cols, n \div Cols).it,
            calls |-> <<Command(SetCursor(n % Cols, n \div Cols).cmd)>>]

\* curright() that sets the address only when it wraps to the first cell
CurrightAddressOnWrap(i) ==
  IF Size <= 0 THEN [it |-> 0, calls |-> <<>>]
  ELSE LET n == IF i + 1 >= Size THEN 0 ELSE i + 1
       IN  IF n = 0
             THEN [it |-> SetCursor(0, 0).it,
                   calls |-> <<Command(SetCursor(0, 0).cmd)>>]
           ELSE [it |-> n, calls |-> <<>>]

Curright(i) ==
  IF Size <= 0 THEN [it |-> 0, calls |-> <<>>]
  ELSE LET n == IF i + 1 >= Size THEN 0 ELSE i + 1
       IN  IF n % Cols = 0
             THEN [it |-> SetCursor(0, n \div Cols).it,
                   calls |-> <<Command(SetCursor(0, n \div Cols).cmd)>>]
           ELSE [it |-> n, calls |-> <<>>]

DataIt(i, value) ==
  [it |-> Curright(i).it, calls |-> <<Data(value)>> \o Curright(i).calls]

\* back(): curleft(), write_char(ord(" ")), curleft()
Back(i) ==
  [it |-> Curleft(Curleft(i).it).it,
   calls |-> Curleft(i).calls \o <<Data(Blank)>> \o Curleft(Curleft(i).it).calls]

(***************************************************************************)
(* The PCF8574 side of the driver: pins.py and the low-level part of       *)
(* lcdx.py.  A pin map is the record of the fields of PinMapping; a byte   *)
(* written to the expander is a number 0..255.                             *)
(***************************************************************************)
PinMapping(rs, rw, e, bl, d4, d5, d6, d7, bl_active_high) ==
  [rs |-> rs, rw |-> rw, e |-> e, bl |-> bl, d4 |-> d4, d5 |-> d5, d6 |-> d6,
   d7 |-> d7, bl_active_high |-> bl_active_high]

VARIANT_A == PinMapping(0, 1, 2, 3, 4, 5, 6, 7, TRUE)
VARIANT_B == PinMapping(0, 2, 1, 3, 4, 5, 6, 7, TRUE)
VARIANT_C == PinMapping(4, 5, 6, 7, 0, 1, 2, 3, TRUE)

PinsOf(m) == <<m.rs, m.rw, m.e, m.bl, m.d4, m.d5, m.d6, m.d7>>

NoError == "none"
ValueError == "ValueError"

\* bit_mask raises ValueError for a bit outside 0..7
BitMaskRaises(bit) == ~(0 <= bit /\ bit <= 7)

\* HD44780_PCF8574.__init__: the exception it ends with, if any
NewRaises(m) == \E k \in 1 .. 8 : BitMaskRaises(PinsOf(m)[k])

\* HD44780_PCF8574._apply_backlight_to_state
ApplyBacklightToState(m, state, on) ==
  IF m.bl_active_high
    THEN (IF on THEN SetBit(state, m.bl) ELSE ClearBit(state, m.bl))
    ELSE (IF on THEN ClearBit(state, m.bl) ELSE SetBit(state, m.bl))

\* _write4bits that leaves the RS bit as it is in _pcf_state
Write4bitsIgnoresRs(m, state, nibble, rs) ==
  LET n == nibble % 16
      s1 == ClearBit(state, m.rw)
      s3 == ClearBit(ClearBit(ClearBit(ClearBit(s1, m.d4), m.d5), m.d6), m.d7)
      s4 == IF Bit(n, 0) THEN SetBit(s3, m.d4) ELSE s3
      s5 == IF Bit(n, 1) THEN SetBit(s4, m.d5) ELSE s4
      s6 == IF Bit(n, 2) THEN SetBit(s5, m.d6) ELSE s5
      s7 == IF Bit(n, 3) THEN SetBit(s6, m.d7) ELSE s6
  IN  <<s7 % 256, SetBit(s7, m.e) % 256, ClearBit(s7, m.e) % 256>>

\* HD44780_PCF8574._write4bits with _pulse_enable: the three bytes written
Write4bits(m, state, nibble, rs) ==
  LET n == nibble % 16
      s1 == ClearBit(state, m.rw)
      s2 == IF rs THEN SetBit(s1, m.rs) ELSE ClearBit(s1, m.rs)
      s3 == ClearBit(ClearBit(ClearBit(ClearBit(s2, m.d4), m.d5), m.d6), m.d7)
      s4 == IF Bit(n, 0) THEN SetBit(s3, m.d4) ELSE s3
      s5 == IF Bit(n, 1) THEN SetBit(s4, m.d5) ELSE s4
      s6 == IF Bit(n, 2) THEN SetBit(s5, m.d6) ELSE s5
      s7 == IF Bit(n, 3) THEN SetBit(s6, m.d7) ELSE s6
  IN  <<s7 % 256, SetBit(s7, m.e) % 256, ClearBit(s7, m.e) % 256>>

\* HD44780_PCF8574._send: the six bytes written
Send(m, state, value, rs) ==
  Write4bits(m, state, value \div 16, rs) \o Write4bits(m, state, value % 16, rs)

\* A driver method as the sequence of its effects in program order: sending a
\* byte (command or write_char), writing the expander directly, assigning
\* _pcf_state, _backlight_on or _it.
SendStep(rs, value) == [k |-> "send", rs |-> rs, value |-> value % 256]
ItStep(value) == [k |-> "it", value |-> value]

ProgCommand(cmd) == <<SendStep(FALSE, cmd)>>
ProgWriteChar(ch) == <<SendStep(TRUE, ch)>>
ProgClear == <<SendStep(FALSE, LCDC_CLS), ItStep(0)>>
ProgSetCursor(col, row) ==
  <<SendStep(FALSE, SetCursor(col, row).cmd), ItStep(SetCursor(col, row).it)>>

ProgCurright(i) ==
  IF Size <= 0 THEN <<ItStep(0)>>
  ELSE LET n == IF i + 1 >= Size THEN 0 ELSE i + 1
       IN  <<ItStep(n)>> \o (IF n % Cols = 0 THEN ProgSetCursor(0, n \div Cols)
                             ELSE <<>>)

ProgDataIt(i, value) == ProgWriteChar(value) \o ProgCurright(i)

LCDC_CGA == 64                     \* 0x40

\* create_char: the exception the argument check ends with, if any
CreateCharRaises(location, pattern) ==
  ~(0 <= location /\ location <= 7) \/ Len(pattern) # 8

\* create_char that sends the pattern rows last to first
ProgCreateCharReversed(location, pattern) ==
  ProgCommand(BitOr(LCDC_CGA, location * 8))
    \o [k \in 1 .. Len(pattern) |-> SendStep(TRUE, pattern[Len(pattern) + 1 - k])]

\* HD44780_PCF8574.create_char with valid arguments
ProgCreateChar(location, pattern) ==
  ProgCommand(BitOr(LCDC_CGA, location * 8))
    \o [k \in 1 .. Len(pattern) |-> SendStep(TRUE, pattern[k])]

\* set_backlight: assign _backlight_on, fold it into _pcf_state, write it
ProgSetBacklight(m, state, on) ==
  <<[k |-> "backlight", value |-> on],
    [k |-> "state", value |-> ApplyBacklightToState(m, state, on)],
    [k |-> "write", value |-> ApplyBacklightToState(m, state, on) % 256]>>

LCDC_MODE == 4                     \* 0x04
LCDC_MODER == 2                    \* 0x02
LCDC_ON == 8                       \* 0x08
LCDC_ONDISPLAY == 4                \* 0x04
LCDC_FUNC == 32                    \* 0x20
LCDC_FUNC2L == 8                   \* 0x08

NibbleStep(nibble) == [k |-> "nibble", rs |-> FALSE, value |-> nibble]

\* init(): func = LCDC_FUNC | LCDC_FUNC4b | (2L or 1L) | LCDC_FUNC5x7
FunctionSet(rows) == BitOr(LCDC_FUNC, IF rows > 1 THEN LCDC_FUNC2L ELSE 0)

\* init() that clears the display before it switches it off
ProgInitClearsFirst(m) ==
  <<[k |-> "state", value |-> 0]>>
    \o ProgSetBacklight(m, 0, TRUE)
    \o <<NibbleStep(3), NibbleStep(3), NibbleStep(3), NibbleStep(2)>>
    \o ProgCommand(FunctionSet(Rows))
    \o ProgClear
    \o ProgCommand(LCDC_ON)
    \o ProgCommand(BitOr(LCDC_MODE, LCDC_MODER))
    \o ProgCommand(BitOr(LCDC_ON, LCDC_ONDISPLAY))
    \o <<ItStep(0)>>

\* HD44780_PCF8574.init on a driver with pin map m
ProgInit(m) ==
  <<[k |-> "state", value |-> 0]>>
    \o ProgSetBacklight(m, 0, TRUE)
    \o <<NibbleStep(3), NibbleStep(3), NibbleStep(3), NibbleStep(2)>>
    \o ProgCommand(FunctionSet(Rows))
    \o ProgCommand(LCDC_ON)
    \o ProgClear
    \o ProgCommand(BitOr(LCDC_MODE, LCDC_MODER))
    \o ProgCommand(BitOr(LCDC_ON, LCDC_ONDISPLAY))
    \o <<ItStep(0)>>

\* the bytes a step passes to i2c_write, one call each
(***************************************************************************)
(* The HD44780 controller at the other end of the expander, as far as the  *)
(* driver uses it: the address counter `ac` (a CGRAM address when `cg`),   *)
(* the display data of the visible cells and the eight patterns of the     *)
(* character generator RAM.  A data write goes to the address in `ac` and  *)
(* increments it (entry mode LCDC_MODE | LCDC_MODER of init()).            *)
(***************************************************************************)
\* the DDRAM address of visible cell i: col + _row_offsets[row]
CellAddr(i) == RowOffsets[(i \div Cols) + 1] + (i % Cols)

\* no controller observed
NoCtrl == [ac |-> None, cg |-> FALSE, ddram |-> <<>>, cgram |-> <<>>]

\* the controller after power-up and init(): display cleared, address 0, no
\* row of the character generator RAM written yet (None)
CtrlInit ==
  [ac |-> 0, cg |-> FALSE,
   ddram |-> [i \in Cells |-> Blank],
   cgram |-> [slot \in 0 .. NumSlots - 1 |-> [k \in 1 .. 8 |-> None]]]

\* the DDRAM address after a data write: two lines of 40 on a display set up
\* with LCDC_FUNC2L, one line of 80 otherwise
NextAddr(a) ==
  IF Rows > 1
    THEN IF a = 39 THEN 64 ELSE IF a = 103 THEN 0 ELSE (a + 1) % 128
  ELSE (a + 1) % 80

\* a controller whose address counter stays where a data write found it
CtrlSendNoIncrement(c, rs, value) ==
  IF rs
    THEN IF c.cg
           THEN [c EXCEPT !.cgram[c.ac \div 8][(c.ac % 8) + 1] = value % 32]
         ELSE [c EXCEPT !.ddram = [i \in Cells |->
                                     IF CellAddr(i) = c.ac THEN value % 256
                                     ELSE c.ddram[i]]]
  ELSE IF value >= LCDC_DDA THEN [c EXCEPT !.ac = value % 128, !.cg = FALSE]
  ELSE IF value >= LCDC_CGA THEN [c EXCEPT !.ac = value % 64, !.cg = TRUE]
  ELSE IF value = LCDC_CLS
    THEN [c EXCEPT !.ac = 0, !.cg = FALSE, !.ddram = [i \in Cells |-> Blank]]
  ELSE IF value \div 2 = 1 THEN [c EXCEPT !.ac = 0, !.cg = FALSE]
  ELSE c

\* the controller after the byte `value` sent by _send(value, rs): data when
\* rs, else a command (set DDRAM address, set CGRAM address, clear, home;
\* the other commands the driver sends leave addresses and memories alone)
CtrlSend(c, rs, value) ==
  IF rs
    THEN IF c.cg
           THEN [c EXCEPT !.cgram[c.ac \div 8][(c.ac % 8) + 1] = value % 32,
                          !.ac = (c.ac + 1) % 64]
         ELSE [c EXCEPT !.ddram = [i \in Cells |->
                                     IF CellAddr(i) = c.ac THEN value % 256
                                     ELSE c.ddram[i]],
                        !.ac = NextAddr(c.ac)]
  ELSE IF value >= LCDC_DDA THEN [c EXCEPT !.ac = value % 128, !.cg = FALSE]
  ELSE IF value >= LCDC_CGA THEN [c EXCEPT !.ac = value % 64, !.cg = TRUE]
  ELSE IF value = LCDC_CLS
    THEN [c EXCEPT !.ac = 0, !.cg = FALSE, !.ddram = [i \in Cells |-> Blank]]
  ELSE IF value \div 2 = 1 THEN [c EXCEPT !.ac = 0, !.cg = FALSE]
  ELSE c

\* the controller after the command() and write_char() calls of a log
RECURSIVE CtrlRun(_, _)
CtrlRun(c, log) ==
  IF log = <<>> \/ c.ac = None THEN c
  ELSE Bind(CtrlSend(c, Head(log).op = "data", Head(log).value),
            LAMBDA n : CtrlRun(n, Tail(log)))

\* the command() and write_char() calls the driver makes for one call of
\* LCDS.flush on it: create_char, set_cursor or write_char
DriverCalls(call) ==
  IF call.op = "create_char"
    THEN <<Command(BitOr(LCDC_CGA, call.slot * 8))>>
           \o [k \in 1 .. Len(call.pattern) |-> Data(call.pattern[k])]
  ELSE IF call.op = "set_cursor" THEN <<Command(call.cmd)>>
  ELSE <<Data(call.code)>>

\* the controller after the driver calls of a flush
RECURSIVE CtrlFlush(_, _)
CtrlFlush(c, log) ==
  IF log = <<>> \/ c.ac = None THEN c
  ELSE Bind(CtrlRun(c, DriverCalls(Head(log))),
            LAMBDA n : CtrlFlush(n, Tail(log)))

StepWrites(m, state, step) ==
  IF step.k = "send" THEN Send(m, state, step.value, step.rs)
  ELSE IF step.k = "nibble" THEN Write4bits(m, state, step.value, step.rs)
  ELSE IF step.k = "write" THEN <<step.value>>
  ELSE <<>>

\* One step of a method.  st carries the driver fields, the bytes written so
\* far (the last one is the failing call when raised is set) and the sends
\* begun.  The failAt-th call of i2c_write raises err (0: none does).
\* Here a failed write is written once more and the method goes on.
RunStepRetries(st, step, failAt, err) ==
  LET w == StepWrites(st.mapping, st.pcf_state, step)
      have == Len(st.bus)
      fails == failAt > have /\ failAt <= have + Len(w)
      done == IF fails
                THEN SubSeq(w, 1, failAt - have) \o SubSeq(w, failAt - have, Len(w))
                ELSE w
  IN  [st EXCEPT
         !.bus = @ \o done,
         !.calls = IF step.k = "send"
                     THEN @ \o <<IF step.rs THEN Data(step.value)
                                 ELSE Command(step.value)>>
                     ELSE @,
         !.it = IF step.k = "it" THEN step.value ELSE @,
         !.pcf_state = IF step.k = "state" THEN step.value ELSE @,
         !.backlight_on = IF step.k = "backlight" THEN step.value ELSE @]

\* Nothing in the driver catches the exception of i2c_write, so the step and
\* the method end at the failing call.
RunStep(st, step, failAt, err) ==
  LET w == StepWrites(st.mapping, st.pcf_state, step)
      have == Len(st.bus)
      fails == failAt > have /\ failAt <= have + Len(w)
      done == IF fails THEN SubSeq(w, 1, failAt - have) ELSE w
  IN  [st EXCEPT
         !.bus = @ \o done,
         !.raised = IF fails THEN err ELSE NoError,
         !.calls = IF step.k = "send"
                     THEN @ \o <<IF step.rs THEN Data(step.value)
                                 ELSE Command(step.value)>>
                     ELSE IF step.k = "nibble"
                     THEN @ \o <<[op |-> "nibble", value |-> step.value % 16]>>
                     ELSE @,
         !.it = IF step.k = "it" THEN step.value ELSE @,
         !.pcf_state = IF step.k = "state" THEN step.value ELSE @,
         !.backlight_on = IF step.k = "backlight" THEN step.value ELSE @]

\* a method from its step j on
RECURSIVE RunSteps(_, _, _, _, _)
RunSteps(prog, j, st, failAt, err) ==
  IF j > Len(prog) \/ st.raised # NoError THEN st
  ELSE Bind(RunStep(st, prog[j], failAt, err),
            LAMBDA n : RunSteps(prog, j + 1, n, failAt, err))

\* the driver fields before a method runs
DriverState ==
  [mapping |-> mapping, pcf_state |-> pcf_state, backlight_on |-> backlight_on,
   it |-> it, bus |-> <<>>, calls |-> <<>>, raised |-> NoError]

(***************************************************************************)
(* LCDS.flush.  A bus failure is an exception raised inside one driver     *)
(* call; `fail` names the call that raises: <<cell, call>>.  The loop      *)
(* state st carries what the loop has changed so far.                      *)
(***************************************************************************)
NoFail == <<None, "none">>
FailStages == {"create_char", "set_cursor", "write_char"}

\* history kept with the glyph cache: which catalog characters went through
\* the cache since it was last empty, how often each was programmed, the
\* live characters in the order they were mapped, the number of evictions
\* (mod 8), and whether a bus failure happened.  Past 8 distinct characters
\* the first two are no longer tracked (over).
EmptyHist == [rendered |-> {}, created |-> EmptyMap, order |-> <<>>,
              evictions |-> 0, clean |-> TRUE, over |-> FALSE]

SeqWithout(q, S) == SelectSeq(q, LAMBDA x : x \notin S)

HistAfter(h, ch, before, enc, failedCreate) ==
  IF ~enc.alloc THEN h
  ELSE LET evicted == DOMAIN before.char_to_slot \ DOMAIN enc.cache.char_to_slot
           fresh == ch \notin DOMAIN before.char_to_slot
                    /\ ch \in DOMAIN enc.cache.char_to_slot
           rend == h.rendered \cup {ch}
           over == h.over \/ Cardinality(rend) > NumSlots
           old == IF ch \in DOMAIN h.created THEN h.created[ch] ELSE 0
           cnt == IF enc.created /\ ~failedCreate THEN Min2(old + 1, 2) ELSE old
       IN  [rendered |-> IF over THEN {} ELSE rend,
            created |-> IF over THEN EmptyMap
                        ELSE (ch :> cnt) @@ h.created,
            order |-> IF fresh THEN Append(SeqWithout(h.order, evicted), ch)
                      ELSE SeqWithout(h.order, evicted),
            evictions |-> (h.evictions + Cardinality(evicted)) % NumSlots,
            clean |-> h.clean /\ ~failedCreate,
            over |-> over]

\* flush() that sets the cursor only where the run of written cells breaks,
\* not after programming a glyph
NeedCursorIgnoresGlyph(cursor_reset, i, last_written) ==
  \/ (i - last_written) # 1
  \/ (i \div Cols) # (last_written \div Cols)

\* flush(): the condition under which set_cursor precedes the write of cell i
NeedCursor(cursor_reset, i, last_written) ==
  \/ cursor_reset
  \/ (i - last_written) # 1
  \/ (i \div Cols) # (last_written \div Cols)

\* the body of the loop of flush() for a changed cell i, after
\* _age_dynamic_mask_if_full() gave `aged` and _encode_for_lcd(ch) gave `enc`
FlushWrite(st, i, fail, aged, enc) ==
  LET ch == buf[i]
      failCreate == enc.created /\ fail = <<i, "create_char">>
      evicted == {<<c, aged.char_to_slot[c]>> :
                    c \in DOMAIN aged.char_to_slot \ DOMAIN enc.cache.char_to_slot}
      create == [op |-> "create_char", slot |-> enc.code,
                 pattern |-> DynCharset[ch].pattern, ch |-> ch,
                 full |-> Cardinality(DOMAIN aged.char_to_slot) = NumSlots,
                 evicted |-> evicted,
                 oldest |-> IF st.hist.order = <<>> THEN None ELSE Head(st.hist.order),
                 nth |-> st.hist.evictions]
      needCursor == NeedCursor(enc.cursor_reset, i, st.last_written)
      failCursor == needCursor /\ fail = <<i, "set_cursor">>
      failWrite == fail = <<i, "write_char">>
      failed == failCreate \/ failCursor \/ failWrite
      sc == SetCursor(i % Cols, i \div Cols)
      cursor == [op |-> "set_cursor", col |-> i % Cols, row |-> i \div Cols,
                 cmd |-> sc.cmd]
      write == [op |-> "write_char", code |-> enc.code % 256, cell |-> i,
                fallback |-> enc.fallback]
  IN  [shadow |-> [st.shadow EXCEPT ![i] = ch],
       cache |-> enc.cache,
       hist |-> [HistAfter(st.hist, ch, aged, enc, failCreate)
                   EXCEPT !.clean = @ /\ ~failed],
       calls |-> st.calls
                   \o (IF enc.created THEN <<create>> ELSE <<>>)
                   \o (IF needCursor /\ ~failCreate THEN <<cursor>> ELSE <<>>)
                   \o (IF ~failCreate /\ ~failCursor THEN <<write>> ELSE <<>>),
       it |-> IF needCursor /\ ~failCreate /\ ~failCursor THEN sc.it ELSE st.it,
       last_written |-> IF failed THEN st.last_written ELSE i,
       failed |-> failed]

\* flush() that never records what it wrote in the shadow
FlushCellKeepsShadow(st, i, fail) ==
  IF st.shadow[i] = buf[i] THEN st
  ELSE Bind(AgeDynamicMaskIfFull(st.cache), LAMBDA aged :
         Bind(EncodeForLcd(aged, buf[i], use_dynamic_chars), LAMBDA enc :
           [FlushWrite(st, i, fail, aged, enc) EXCEPT !.shadow = st.shadow]))

\* flush() that writes every cell of a row holding a changed cell
FlushCellWholeRow(st, i, fail) ==
  IF \A j \in Cells : (j \div Cols = i \div Cols) => st.shadow[j] = buf[j] THEN st
  ELSE Bind(AgeDynamicMaskIfFull(st.cache), LAMBDA aged :
         Bind(EncodeForLcd(aged, buf[i], use_dynamic_chars), LAMBDA enc :
           FlushWrite(st, i, fail, aged, enc)))

\* one iteration of the loop of flush(), for cell i
FlushCell(st, i, fail) ==
  IF st.shadow[i] = buf[i] THEN st
  ELSE Bind(AgeDynamicMaskIfFull(st.cache), LAMBDA aged :
         Bind(EncodeForLcd(aged, buf[i], use_dynamic_chars), LAMBDA enc :
           FlushWrite(st, i, fail, aged, enc)))

RECURSIVE FlushLoop(_, _, _)
FlushLoop(st, i, fail) ==
  IF i >= Size \/ st.failed THEN st
  ELSE Bind(FlushCell(st, i, fail), LAMBDA n : FlushLoop(n, i + 1, fail))

\* LCDS.flush from the current state
FlushResult(fail) ==
  FlushLoop([shadow |-> shadow, cache |-> Cache, hist |-> hist, calls |-> <<>>,
             it |-> it, last_written |-> NoLastWritten, failed |-> FALSE],
            0, fail)

(***************************************************************************)
(* The menu engine: menu/core.py and menu/widgets.py.  A widget is the     *)
(* record of its fields with its class in `kind`; a text is a sequence of  *)
(* code points.  A Menu keeps its lines as the sequence of their widgets   *)
(* (Line only forwards to its `inh`), and `sub`, which the code only ever  *)
(* sets to the menu of the focused line, as the flag whether it is set.    *)
(***************************************************************************)
NONE == 0
OK == 1
LEFT == 2
RIGHT == 3
UP == 4
DOWN == 5
ON_ENTER == 6
ON_LEAVE == 7
BREAK == 8
DIGIT_BASE == 9

EditMaxLen == 50                   \* Edit.max_len default
EditGetSize == 100                 \* Switch.action: self.edit.get(100)
EditInnerVisible == 12             \* Edit.action: inner_visible
CurLineCap == 1000000              \* Menu.menu_action: self.cur_line < 1_000_000
DefaultLastRows == 2               \* Menu._last_rows

Chr(c) == <<c>>
Spaces(n) == [k \in 1 .. Max2(0, n) |-> Blank]
Take(text, n) == SubSeq(text, 1, Min2(Len(text), Max2(0, n)))

\* _fit that pads but never truncates
FitPadsOnly(text, size) ==
  IF size <= 0 THEN <<>>
  ELSE text \o Spaces(size - Len(text))

\* _fit(text, size)
Fit(text, size) ==
  IF size <= 0 THEN <<>>
  ELSE IF Len(text) >= size THEN SubSeq(text, 1, size)
  ELSE text \o Spaces(size - Len(text))

\* _bracket(on, on)
BracketOpen(on) == IF on THEN 60 ELSE 91
BracketClose(on) == IF on THEN 62 ELSE 93

\* str.encode("latin-1", errors="replace") and bytes.decode("latin-1")
EncodeLatin1(text) == [k \in 1 .. Len(text) |-> IF text[k] <= 255 THEN text[k] ELSE Question]

NoEdit == [kind |-> "None"]
NewSpace == [kind |-> "Space"]
NewSwitchItem(name) == [kind |-> "SwitchItem", name |-> name, enter |-> FALSE, select |-> FALSE]
NewOk(commit) == [kind |-> "Ok", commit |-> commit, index |-> 0, enter |-> FALSE]
NewSwitch(name) ==
  [kind |-> "Switch", name |-> name, edit |-> NoEdit, counter |-> 0,
   enter |-> FALSE, select |-> FALSE]
NewEdit(max_len) ==
  [kind |-> "Edit", max_len |-> max_len, input |-> [k \in 1 .. max_len |-> 0],
   children_num |-> 0, child_it |-> 0, cur_line |-> 0, enter |-> FALSE]
NewMenu(name, lines, event) ==
  [kind |-> "Menu", name |-> name, event |-> event, lines |-> lines,
   child_it |-> 0, cur_line |-> 0, sub |-> FALSE, last_rows |-> DefaultLastRows]

\* Edit.set(text)
EditSet(e, text) ==
  IF Len(text) = 0 THEN e
  ELSE LET raw == Take(EncodeLatin1(text), e.max_len - 1)
       IN  [e EXCEPT !.input = [k \in 1 .. e.max_len |->
                                  IF k <= Len(raw) THEN raw[k] ELSE e.input[k]],
                     !.child_it = Len(raw),
                     !.children_num = Len(raw),
                     !.cur_line = 0]

\* Edit.get(size)
EditGet(e, size) ==
  IF size <= 0 THEN <<>>
  ELSE SubSeq(e.input, 1, Min2(size - 1, e.children_num))

\* the bytes of a list up to its first 0: bytes(view).split(b"\x00", 1)[0]
UpToNul(view) ==
  LET nuls == {k \in 1 .. Len(view) : view[k] = 0}
  IN  IF nuls = {} THEN view ELSE SubSeq(view, 1, Min(nuls) - 1)

\* Edit.print(line, size)
EditPrint(e, size) ==
  IF size <= 0 THEN <<>>
  ELSE IF size < 2 THEN Spaces(size)
  ELSE LET inner == Max2(0, size - 2)
           view == [k \in 1 .. inner |->
                      IF (k - 1) < e.children_num /\ e.cur_line + (k - 1) < e.max_len - 1
                        THEN e.input[((e.cur_line + (k - 1)) % (e.max_len - 1)) + 1]
                        ELSE 0]
           b == UpToNul(view)
           place0 == Max2(0, e.child_it - e.cur_line)
           place == IF place0 > Len(b) THEN Len(b) ELSE place0
           content == IF b = <<>>
                        THEN Chr(124) \o Spaces(inner - 1)
                        ELSE Fit(SubSeq(b, 1, place) \o Chr(124)
                                   \o SubSeq(b, place + 1, Len(b)), inner)
       IN  Chr(BracketOpen(e.enter)) \o content \o Chr(BracketClose(e.enter))

\* Edit.action: inner_visible, the width the scrolling assumes
EditInnerWidth(e) ==
  IF e.cur_line <= e.child_it
    THEN Max2(EditInnerVisible, (e.child_it - e.cur_line) + 1)
    ELSE EditInnerVisible

\* the BREAK branch removing the byte under the cursor instead of the one
\* before it
EditDeleteAtCursor(e) ==
  LET n == e.children_num
      c == e.child_it
  IN  IF n # 0 /\ c # 0
        THEN [e EXCEPT
                !.input = [k \in 1 .. e.max_len |->
                             IF k - 1 >= c /\ k - 1 < n - 1 THEN e.input[k + 1]
                             ELSE IF k - 1 = n - 1 THEN 0
                             ELSE e.input[k]],
                !.child_it = c - 1,
                !.children_num = n - 1,
                !.cur_line = IF @ > 0 THEN @ - 1 ELSE @]
        ELSE e

\* Edit.action, the BREAK branch
EditDelete(e) ==
  LET n == e.children_num
      c == e.child_it
  IN  IF n # 0 /\ c # 0
        THEN [e EXCEPT
                !.input = [k \in 1 .. e.max_len |->
                             IF k - 1 >= c - 1 /\ k - 1 < n - 1 THEN e.input[k + 1]
                             ELSE IF k - 1 = n - 1 THEN 0
                             ELSE e.input[k]],
                !.child_it = c - 1,
                !.children_num = n - 1,
                !.cur_line = IF @ > 0 THEN @ - 1 ELSE @]
        ELSE e

\* the insert branch writing over the byte at the cursor without moving the
\* bytes behind it
EditInsertOverwrites(e, action) ==
  LET n == e.children_num
      c == e.child_it
  IN  IF n < e.max_len - 2
        THEN [e EXCEPT
                !.input = [@ EXCEPT ![c + 1] = (action - DIGIT_BASE) % 256],
                !.child_it = c + 1,
                !.children_num = n + 1,
                !.cur_line = IF (c + 1 - @) > EditInnerWidth(e) - 1 THEN @ + 1 ELSE @]
        ELSE e

\* Edit.action, the last branch: every action that is not ON_ENTER,
\* ON_LEAVE, RIGHT, LEFT or BREAK inserts the byte (action - DIGIT_BASE) & 0xFF
EditInsert(e, action) ==
  LET n == e.children_num
      c == e.child_it
      ch == (action - DIGIT_BASE) % 256
  IN  IF n < e.max_len - 2
        THEN [e EXCEPT
                !.input = [k \in 1 .. e.max_len |->
                             IF k - 1 = c THEN ch
                             ELSE IF k - 1 > c /\ k - 1 <= n /\ k - 1 < e.max_len - 1
                               THEN e.input[k - 1]
                             ELSE e.input[k]],
                !.child_it = c + 1,
                !.children_num = n + 1,
                !.cur_line = IF (c + 1 - @) > EditInnerWidth(e) - 1 THEN @ + 1 ELSE @]
        ELSE e

\* Edit.action, the RIGHT and LEFT branches
EditRight(e) ==
  IF e.child_it < e.children_num
    THEN [e EXCEPT !.child_it = @ + 1,
                   !.cur_line = IF (e.child_it + 1 - @) > EditInnerWidth(e) - 1
                                  THEN @ + 1 ELSE @]
    ELSE e

\* the LEFT branch moving the cursor but never the scroll offset
EditLeftKeepsScroll(e) ==
  [e EXCEPT !.child_it = IF @ > 0 THEN @ - 1 ELSE @]

EditLeft(e) ==
  [e EXCEPT !.child_it = IF @ > 0 THEN @ - 1 ELSE @,
            !.cur_line = IF @ > 0 THEN @ - 1 ELSE @]

\* Edit.action(line, action): the editor after the action (it returns action)
EditAction(e, action) ==
  IF action = ON_ENTER THEN [e EXCEPT !.enter = TRUE]
  ELSE IF action = ON_LEAVE THEN [e EXCEPT !.enter = FALSE]
  ELSE IF action = RIGHT THEN EditRight(e)
  ELSE IF action = LEFT THEN EditLeft(e)
  ELSE IF action = BREAK THEN EditDelete(e)
  ELSE EditInsert(e, action)

\* SwitchItem.print and Switch.print: the name in size-3 cells, then o mid c
NameAndBox(name, size, on, mid) ==
  Fit(Take(Fit(name, size), Max2(0, size - 3)), size - 3)
    \o <<BracketOpen(on), mid, BracketClose(on)>>

SaveText == <<83, 97, 118, 101>>   \* "Save"

\* LineInh.print(line, size) of each widget class
WidgetPrint(w, size) ==
  CASE w.kind = "Space" -> [k \in 1 .. Max2(0, size) |-> 45]
    [] w.kind = "SwitchItem" ->
         IF size < 4 THEN <<>>
         ELSE NameAndBox(w.name, size, w.enter, IF w.select THEN 42 ELSE Blank)
    [] w.kind = "Switch" ->
         IF size < 4 THEN <<>>
         ELSE IF w.edit # NoEdit THEN EditPrint(w.edit, size)
         ELSE NameAndBox(w.name, size, w.enter, Blank)
    [] w.kind = "Edit" -> EditPrint(w, size)
    [] w.kind = "Ok" -> Fit(SaveText, size)
    [] w.kind = "Menu" -> w.name

\* Line.print(size)
LinePrint(w, size) == Fit(WidgetPrint(w, size), size)

\* Line.submenu() is not None
HasSubmenu(w) == w.kind = "Menu"

\* Line.grab()
Grab(w) == w.kind = "Switch" /\ w.edit # NoEdit

\* Switch.action(line, action)
SwitchAction(w, action) ==
  IF w.edit # NoEdit
    THEN IF action = OK
           THEN [w |-> [w EXCEPT !.name = EditGet(w.edit, EditGetSize), !.edit = NoEdit],
                 rv |-> BREAK]
           ELSE [w |-> [w EXCEPT !.edit = EditAction(w.edit, action)], rv |-> BREAK]
  ELSE IF action = ON_ENTER THEN [w |-> [w EXCEPT !.enter = TRUE], rv |-> action]
  ELSE IF action = ON_LEAVE THEN [w |-> [w EXCEPT !.enter = FALSE], rv |-> action]
  ELSE IF action \in {LEFT, RIGHT}
    THEN [w |-> [w EXCEPT !.counter = 0, !.select = ~w.select], rv |-> action]
  ELSE IF action = OK
    THEN [w |-> [w EXCEPT !.edit = EditAction(EditSet(NewEdit(EditMaxLen), w.name),
                                              ON_ENTER)],
          rv |-> action]
  ELSE [w |-> w, rv |-> action]

\* RangeItem(name, min, max, current), EnumItem(name, positions), TimeItem()
NewRangeItem(name, min, max, current) ==
  [kind |-> "RangeItem", name |-> name, min |-> min, max |-> max,
   current |-> current, enter |-> FALSE]
NewEnumItem(name, positions) ==
  [kind |-> "EnumItem", name |-> name, positions |-> positions, pos |-> 0,
   enter |-> FALSE]
NewTimeItem == [kind |-> "TimeItem", h |-> 0, m |-> 0, s |-> 0, it |-> 0, enter |-> FALSE]

\* EnumItem.__post_init__: the error it raises
EnumNewRaises(positions) == IF Len(positions) = 0 THEN ValueError ELSE NoError

\* RangeItem.action without the tests against min and max
RangeActionUnclamped(w, action) ==
  IF action = ON_ENTER THEN [w EXCEPT !.enter = TRUE]
  ELSE IF action = ON_LEAVE THEN [w EXCEPT !.enter = FALSE]
  ELSE IF action = RIGHT THEN [w EXCEPT !.current = @ + 1]
  ELSE IF action = LEFT THEN [w EXCEPT !.current = @ - 1]
  ELSE w

\* RangeItem.action(line, action): the widget afterwards (it returns action)
RangeAction(w, action) ==
  IF action = ON_ENTER THEN [w EXCEPT !.enter = TRUE]
  ELSE IF action = ON_LEAVE THEN [w EXCEPT !.enter = FALSE]
  ELSE IF action = RIGHT THEN [w EXCEPT !.current = IF @ < w.max THEN @ + 1 ELSE @]
  ELSE IF action = LEFT THEN [w EXCEPT !.current = IF @ > w.min THEN @ - 1 ELSE @]
  ELSE w

\* RangeItem.set_value(value): [w, rv]
RangeSetValue(w, value) ==
  IF value < w.min \/ value > w.max THEN [w |-> w, rv |-> FALSE]
  ELSE [w |-> [w EXCEPT !.current = value], rv |-> TRUE]

\* EnumItem.action where LEFT steps back without wrapping
EnumActionNoWrap(w, action) ==
  IF action = ON_ENTER THEN [w EXCEPT !.enter = TRUE]
  ELSE IF action = ON_LEAVE THEN [w EXCEPT !.enter = FALSE]
  ELSE IF action = RIGHT THEN [w EXCEPT !.pos = (@ + 1) % Len(w.positions)]
  ELSE IF action = LEFT THEN [w EXCEPT !.pos = IF @ > 0 THEN @ - 1 ELSE @]
  ELSE w

\* EnumItem.action(line, action): the widget afterwards (it returns action)
EnumAction(w, action) ==
  IF action = ON_ENTER THEN [w EXCEPT !.enter = TRUE]
  ELSE IF action = ON_LEAVE THEN [w EXCEPT !.enter = FALSE]
  ELSE IF action = RIGHT THEN [w EXCEPT !.pos = (@ + 1) % Len(w.positions)]
  ELSE IF action = LEFT THEN [w EXCEPT !.pos = (@ - 1) % Len(w.positions)]
  ELSE w

\* EnumItem.set_pos(pos): [w, rv]
EnumSetPos(w, pos) ==
  IF pos < 0 \/ pos >= Len(w.positions) THEN [w |-> w, rv |-> FALSE]
  ELSE [w |-> [w EXCEPT !.pos = pos], rv |-> TRUE]

\* TimeItem.action(line, action): the widget afterwards (it returns action);
\* the method has no branch for LEFT
TimeAction(w, action) ==
  IF action = ON_ENTER THEN [w EXCEPT !.enter = TRUE]
  ELSE IF action = ON_LEAVE THEN [w EXCEPT !.enter = FALSE]
  ELSE IF action = OK THEN [w EXCEPT !.it = (@ + 1) % 3]
  ELSE IF action = RIGHT
    THEN IF w.it = 0 THEN [w EXCEPT !.h = (@ + 1) % 24]
         ELSE IF w.it = 1 THEN [w EXCEPT !.m = (@ + 1) % 60]
         ELSE [w EXCEPT !.s = (@ + 1) % 60]
  ELSE w

\* TimeItem.set_value(hour, minute, second)
TimeSetValue(w, hour, minute, second) ==
  [w EXCEPT !.h = hour % 24, !.m = minute % 60, !.s = second % 60]

\* SwitchItem.action, Ok.action, Space.action, Edit.action and the value
\* widgets' action: widget and result
LeafAction(w, action) ==
  CASE w.kind = "Space" -> [w |-> w, rv |-> NONE]
    [] w.kind = "SwitchItem" ->
         [w |-> IF action = ON_ENTER THEN [w EXCEPT !.enter = TRUE]
                ELSE IF action = ON_LEAVE THEN [w EXCEPT !.enter = FALSE]
                ELSE IF action \in {LEFT, RIGHT} THEN [w EXCEPT !.select = ~w.select]
                ELSE w,
          rv |-> action]
    [] w.kind = "Ok" ->
         [w |-> IF action = ON_ENTER THEN [w EXCEPT !.enter = TRUE]
                ELSE IF action = ON_LEAVE THEN [w EXCEPT !.enter = FALSE]
                ELSE w,
          rv |-> IF action = OK THEN BREAK ELSE action]
    [] w.kind = "Switch" -> SwitchAction(w, action)
    [] w.kind = "Edit" -> [w |-> EditAction(w, action), rv |-> action]
    [] w.kind = "RangeItem" -> [w |-> RangeAction(w, action), rv |-> action]
    [] w.kind = "EnumItem" -> [w |-> EnumAction(w, action), rv |-> action]
    [] w.kind = "TimeItem" -> [w |-> TimeAction(w, action), rv |-> action]

\* what a menu operation did besides changing the widgets: the actions sent
\* to lines, the delegations to the active submenu, the observer calls
SentToLine(m, idx, action) == [to |-> "line", menu |-> m.name, idx |-> idx, action |-> action]
SentToSub(m, action) == [to |-> "sub", menu |-> m.name, idx |-> m.child_it, action |-> action]
EventCall(m, action) == [to |-> "event", menu |-> m.name, idx |-> m.child_it, action |-> action]
CommitCall(w) == [to |-> "commit", menu |-> <<>>, idx |-> w.index, action |-> OK]

\* Menu._rows_hint()
RowsHint(m) == Max2(1, m.last_rows)

\* self.event(self, action, self.child_it) when an observer is set
FireEvent(m, action, log) == IF m.event THEN Append(log, EventCall(m, action)) ELSE log

\* the observer call of the OK branch: it follows current.action(action)
\* whatever that returned
FireEventAfterOk(m, action, rv, log) == FireEvent(m, action, log)

\* DOWN and UP move the focus although the focused line grabs them
GrabIgnored(w) == FALSE

\* current.grab() as DOWN and UP consult it
GrabsUpDown(w) == Grab(w)

\* the scroll offset after DOWN, never limited by the rows hint
CurLineAfterDownNoHint(m) ==
  IF m.cur_line < CurLineCap /\ m.cur_line < Len(m.lines) - 1
    THEN m.cur_line + 1 ELSE m.cur_line

\* the scroll offset after DOWN
CurLineAfterDown(m) ==
  IF m.cur_line < CurLineCap /\ m.cur_line < RowsHint(m) - 1
       /\ m.cur_line < Len(m.lines) - 1
    THEN m.cur_line + 1 ELSE m.cur_line

\* a BREAK of the active submenu that leaves it active
SubAfterKeepsOpen(rv) == TRUE

\* self.sub after the active submenu returned rv
SubAfter(rv) == rv # BREAK

RECURSIVE MenuAction(_, _)
RECURSIVE LineAct(_, _, _)

\* self.lines[idx].action(action) inside a menu operation: st is the menu
\* and the log so far; the result adds the line's return value
LineAct(st, idx, action) ==
  LET w == st.w.lines[idx + 1]
      sent == Append(st.log, SentToLine(st.w, idx, action))
  IN  IF w.kind = "Menu"
        THEN Bind(MenuAction(w, action), LAMBDA r :
               [w |-> [st.w EXCEPT !.lines[idx + 1] = r.w],
                log |-> sent \o r.log, rv |-> r.rv])
        ELSE Bind(LeafAction(w, action), LAMBDA r :
               [w |-> [st.w EXCEPT !.lines[idx + 1] = r.w],
                log |-> IF w.kind = "Ok" /\ action = OK /\ w.commit
                          THEN Append(sent, CommitCall(w)) ELSE sent,
                rv |-> r.rv])

\* Menu.menu_action(action): the menu afterwards, the return value, the log
MenuAction(m, action) ==
  LET n == Len(m.lines)
      ci == m.child_it
      current == m.lines[ci + 1]
      start == [w |-> m, log |-> <<>>]
      done(st) == [w |-> st.w, rv |-> action, log |-> FireEvent(st.w, action, st.log)]
  IN  IF m.sub
        THEN Bind(MenuAction(current, action), LAMBDA r :
               [w |-> [m EXCEPT !.lines[ci + 1] = r.w, !.sub = SubAfter(r.rv)],
                rv |-> IF r.rv = BREAK THEN NONE ELSE action,
                log |-> <<SentToSub(m, action)>> \o r.log])
      ELSE IF n = 0 THEN [w |-> m, rv |-> NONE, log |-> <<>>]
      ELSE IF action = NONE THEN done(start)
      ELSE IF action = DOWN
        THEN IF GrabsUpDown(current) THEN done(start)
             ELSE Bind(LineAct(start, ci, ON_LEAVE), LAMBDA s1 :
                  Bind(LineAct([w |-> [s1.w EXCEPT !.child_it = (ci + 1) % n],
                                log |-> s1.log], (ci + 1) % n, ON_ENTER), LAMBDA s2 :
                       done([w |-> [s2.w EXCEPT !.cur_line = CurLineAfterDown(m)],
                             log |-> s2.log])))
      ELSE IF action = UP
        THEN IF GrabsUpDown(current) THEN done(start)
             ELSE Bind(IF ci > 0 THEN ci - 1 ELSE n - 1, LAMBDA ni :
                  Bind(LineAct(start, ci, ON_LEAVE), LAMBDA s1 :
                  Bind(LineAct([w |-> [s1.w EXCEPT !.child_it = ni], log |-> s1.log],
                               ni, ON_ENTER), LAMBDA s2 :
                       done([w |-> [s2.w EXCEPT !.cur_line = IF @ > 0 THEN @ - 1 ELSE @],
                             log |-> s2.log]))))
      ELSE IF action \in {RIGHT, LEFT, ON_ENTER, ON_LEAVE}
        THEN IF ~HasSubmenu(current)
               THEN Bind(LineAct(start, ci, action), LAMBDA s1 : done(s1))
               ELSE done(start)
      ELSE IF action = OK
        THEN IF ~HasSubmenu(current)
               THEN Bind(LineAct(start, ci, action), LAMBDA s1 :
                      [w |-> s1.w, rv |-> s1.rv,
                       log |-> FireEventAfterOk(s1.w, action, s1.rv, s1.log)])
               ELSE Bind(LineAct([w |-> [m EXCEPT !.sub = TRUE], log |-> <<>>],
                                 ci, ON_ENTER), LAMBDA s1 : done(s1))
      ELSE IF (~HasSubmenu(current)) \/ Grab(current)
        THEN Bind(LineAct(start, ci, action), LAMBDA s1 : done(s1))
        ELSE done(start)

\* Menu.set_rows_hint(rows)
SetRowsHint(m, rows) == [m EXCEPT !.last_rows = Max2(1, rows)]

\* a row that carries the marker when its number is the index of the focused
\* line
RenderRowMarksIndex(m, cols, i) ==
  LET n == Len(m.lines)
      prefix == IF i < n /\ i = m.child_it THEN <<62, Blank>> ELSE <<Blank, Blank>>
      body == IF i < n
                THEN LinePrint(m.lines[((m.child_it + i + n - m.cur_line) % n) + 1], cols - 2)
                ELSE Spaces(cols - 2)
  IN  Fit(prefix \o body, cols)

\* row i of Menu.render(cols, rows) of a menu with no active submenu
RenderRow(m, cols, i) ==
  LET n == Len(m.lines)
      prefix == IF i < n /\ i = m.cur_line THEN <<62, Blank>> ELSE <<Blank, Blank>>
      body == IF i < n
                THEN LinePrint(m.lines[((m.child_it + i + n - m.cur_line) % n) + 1], cols - 2)
                ELSE Spaces(cols - 2)
  IN  Fit(prefix \o body, cols)

RECURSIVE Render(_, _, _)
\* Menu.render(cols, rows)
Render(m, cols, rows) ==
  IF cols <= 0 \/ rows <= 0 THEN <<>>
  ELSE IF m.sub THEN Render(m.lines[m.child_it + 1], cols, rows)
  ELSE [k \in 1 .. rows |-> RenderRow(m, cols, k - 1)]

(***************************************************************************)
(* Inputs of the buffered-screen operations.                               *)
(***************************************************************************)
ColArgs == (0 - 1) .. Cols
RowArgs == (0 - 1) .. Rows

TextAB == <<65, 66>>                          \* "AB"
TextCD == <<67, 68>>                          \* "CD"
TextAnB == <<65, Newline, 66>>                \* "A\nB"
TextC == <<67>>                               \* "C"
TextWrap == [k \in 1 .. (Cols + 1) |-> 68 + k] \* "EFG..", one longer than a row
TextLong == [k \in 1 .. (Cols + 1) |-> 86 + k] \* "WXY..", one longer than a row
TextDeg == <<176, 65>>                        \* degree sign (catalog), "A"
Glyphs1 == <<261, 260, 263>>                  \* three catalog characters
Glyphs2 == <<262, 281, 280>>                  \* three more
Glyphs3 == <<322, 321, 324>>                  \* and three more: nine in all

\* bus failures: the driver call that raises, at the last cell of row 0
FailCell == Cols - 1
FailPoints == {NoFail} \cup ({FailCell} \X FailStages)

(***************************************************************************)
(* Menus the operations of the menu engine are run on.                     *)
(***************************************************************************)
SubMenu == NewMenu(<<83>>, <<NewOk(TRUE), NewSpace>>, TRUE)
MainMenu ==
  NewMenu(<<77>>, <<NewSwitchItem(<<65>>), NewSwitch(<<66>>), SubMenu, NewOk(FALSE)>>, TRUE)
EmptyMenu == NewMenu(<<69>>, <<>>, TRUE)
SingleMenu == NewMenu(<<79>>, <<NewSpace>>, FALSE)
MenuTrees == {MainMenu, EmptyMenu, SingleMenu}

Op(name, col, row, text, failed, n) ==
  [name |-> name, col |-> col, row |-> row, text |-> text,
   failed |-> failed, run |-> n]

(***************************************************************************)
(* State after LCDS.__init__ (over a constructed HD44780_PCF8574).         *)
(***************************************************************************)
InitFields ==
  /\ use_dynamic_chars \in BOOLEAN
  /\ buf = [i \in Cells |-> Blank]
  /\ shadow = [i \in Cells |-> NUL]
  /\ puts_line = 0
  /\ dyn_char_to_slot = EmptyCache.char_to_slot
  /\ dyn_slot_to_char = EmptyCache.slot_to_char
  /\ dyn_used_mask = 0
  /\ dyn_rotate_index = 0
  /\ it = 0
  /\ mapping = VARIANT_A
  /\ pcf_state = 0
  /\ backlight_on = TRUE
  /\ bus = <<>>
  /\ raised = NoError
  /\ fault = <<0, NoError>>
  /\ lastOp = Op("init", 0, 0, <<>>, FALSE, 0)
  /\ calls = <<>>
  /\ hist = EmptyHist
  /\ run = [start |-> 0, len |-> 0]
  /\ menu = MainMenu
  /\ mrv = NONE
  /\ mlog = <<>>
  /\ rendered = <<>>
  /\ widget = NewEdit(EditMaxLen)

\* the display is not observed
Init == InitFields /\ ctrl = NoCtrl

\* the display is observed from its state after power-up and init()
InitLcd == InitFields /\ ctrl = CtrlInit

(***************************************************************************)
(* Buffered-screen operations.                                             *)
(***************************************************************************)
DoClear ==
  /\ buf' = Clear(buf)
  /\ lastOp' = Op("clear", 0, 0, <<>>, FALSE, 0)
  /\ calls' = <<>>
  /\ UNCHANGED <<use_dynamic_chars, shadow, puts_line, cacheVars, it, hist, run,
                 busVars, menuVars, ctrl>>

DoClearLine(row) ==
  /\ buf' = ClearLine(buf, row)
  /\ lastOp' = Op("clear_line", 0, row, <<>>, FALSE, 0)
  /\ calls' = <<>>
  /\ UNCHANGED <<use_dynamic_chars, shadow, puts_line, cacheVars, it, hist, run,
                 busVars, menuVars, ctrl>>

DoWriteAt(col, row, text) ==
  /\ buf' = WriteAt(buf, col, row, text)
  /\ lastOp' = Op("write_at", col, row, text, FALSE, 0)
  /\ calls' = <<>>
  /\ UNCHANGED <<use_dynamic_chars, shadow, puts_line, cacheVars, it, hist, run,
                 busVars, menuVars, ctrl>>

DoPuts(text) ==
  \E r \in {Puts(buf, puts_line, text)} :
  /\ buf' = r.buf
  /\ puts_line' = r.line
  /\ lastOp' = Op("puts", 0, 0, text, FALSE, 0)
  /\ calls' = <<>>
  /\ UNCHANGED <<use_dynamic_chars, shadow, cacheVars, it, hist, run, busVars, menuVars, ctrl>>

DoResetDynamicChars ==
  /\ dyn_char_to_slot' = EmptyCache.char_to_slot
  /\ dyn_slot_to_char' = EmptyCache.slot_to_char
  /\ dyn_used_mask' = 0
  /\ dyn_rotate_index' = 0
  /\ hist' = EmptyHist
  /\ lastOp' = Op("reset_dynamic_chars", 0, 0, <<>>, FALSE, 0)
  /\ calls' = <<>>
  /\ UNCHANGED <<use_dynamic_chars, buf, shadow, puts_line, it, run, busVars, menuVars, ctrl>>

DoFlush(fail) ==
  \E st \in {FlushResult(fail)} :
  /\ shadow' = st.shadow
  /\ dyn_char_to_slot' = st.cache.char_to_slot
  /\ dyn_slot_to_char' = st.cache.slot_to_char
  /\ dyn_used_mask' = st.cache.used_mask
  /\ dyn_rotate_index' = st.cache.rotate_index
  /\ it' = st.it
  /\ hist' = st.hist
  /\ calls' = st.calls
  /\ lastOp' = Op("flush", 0, 0, <<>>, st.failed,
                  IF st.failed THEN 0 ELSE Min2(lastOp.run + 1, 2))
  /\ run' = [start |-> st.it, len |-> 0]
  /\ ctrl' = CtrlFlush(ctrl, st.calls)
  /\ UNCHANGED <<use_dynamic_chars, buf, puts_line, busVars, menuVars>>

(***************************************************************************)
(* Driver operations called directly on HD44780_PCF8574.                   *)
(***************************************************************************)
LcdStep(name, col, row, r) ==
  /\ it' = r.it
  /\ calls' = r.calls
  /\ lastOp' = Op(name, col, row, <<>>, FALSE, 0)
  /\ run' = [start |-> r.it, len |-> 0]
  /\ ctrl' = CtrlRun(ctrl, r.calls)
  /\ UNCHANGED <<lcdsVars, hist, busVars, menuVars>>

LcdClear == LcdStep("lcd.clear", 0, 0, [it |-> 0, calls |-> <<Command(LCDC_CLS)>>])

LcdHome == LcdStep("home", 0, 0, [it |-> 0, calls |-> <<Command(LCDC_HOME)>>])

LcdSetCursor(col, row) ==
  LcdStep("set_cursor", col, row,
          [it |-> SetCursor(col, row).it,
           calls |-> <<Command(SetCursor(col, row).cmd)>>])

LcdLine1 == LcdStep("line1", 0, 0, Line1(it))

LcdLine2 == LcdStep("line2", 0, 0, Line2(it))

LcdGotoxy(x, y) == LcdStep("gotoxy", x, y, Gotoxy(it, x, y))

LcdUp == LcdStep("up", 0, 0, Up(it))

LcdDown == LcdStep("down", 0, 0, Down(it))

LcdCurleft == LcdStep("curleft", 0, 0, Curleft(it))

LcdDataIt(value) == LcdStep("data_it", 0, 0, DataIt(it, value))

LcdBack == LcdStep("back", 0, 0, Back(it))

\* curright(); run counts the consecutive calls, starting over after a full lap
LcdCurright ==
  /\ it' = Curright(it).it
  /\ calls' = Curright(it).calls
  /\ lastOp' = Op("curright", 0, 0, <<>>, FALSE, 0)
  /\ run' = IF run.len >= Size THEN [start |-> it, len |-> 1]
            ELSE [run EXCEPT !.len = @ + 1]
  /\ ctrl' = CtrlRun(ctrl, Curright(it).calls)
  /\ UNCHANGED <<lcdsVars, hist, busVars, menuVars>>

(***************************************************************************)
(* The driver at the level of the expander: its constructor and methods    *)
(* with the bytes they write, and a bus whose failAt-th write raises err.  *)
(***************************************************************************)
\* HD44780_PCF8574(i2c, m): lastOp.text keeps the pins passed
BusNew(m) ==
  /\ lastOp' = Op("new", 0, 0, PinsOf(m), NewRaises(m), 0)
  /\ calls' = <<>>
  /\ bus' = <<>>
  /\ fault' = <<0, NoError>>
  /\ run' = [start |-> 0, len |-> 0]
  /\ IF NewRaises(m)
       THEN /\ raised' = ValueError
            /\ UNCHANGED <<mapping, pcf_state, backlight_on, it>>
       ELSE /\ raised' = NoError
            /\ mapping' = m
            /\ pcf_state' = 0
            /\ backlight_on' = TRUE
            /\ it' = 0
  /\ UNCHANGED <<lcdsVars, hist, menuVars, ctrl>>

\* a method given as its steps
BusRun(name, col, row, text, prog, failAt, err) ==
  \E st \in {RunSteps(prog, 1, DriverState, failAt, err)} :
  /\ it' = st.it
  /\ pcf_state' = st.pcf_state
  /\ backlight_on' = st.backlight_on
  /\ bus' = st.bus
  /\ calls' = st.calls
  /\ raised' = st.raised
  /\ fault' = <<failAt, err>>
  /\ lastOp' = Op(name, col, row, text, st.raised # NoError, failAt)
  /\ run' = [start |-> st.it, len |-> 0]
  /\ UNCHANGED <<lcdsVars, hist, menuVars, mapping, ctrl>>

BusCommand(cmd, failAt, err) ==
  BusRun("command", cmd, 0, <<>>, ProgCommand(cmd), failAt, err)

BusWriteChar(ch, failAt, err) ==
  BusRun("write_char", ch, 0, <<>>, ProgWriteChar(ch), failAt, err)

BusClear(failAt, err) == BusRun("lcd.clear", 0, 0, <<>>, ProgClear, failAt, err)

BusSetCursor(col, row, failAt, err) ==
  BusRun("set_cursor", col, row, <<>>, ProgSetCursor(col, row), failAt, err)

BusCurright(failAt, err) ==
  BusRun("curright", 0, 0, <<>>, ProgCurright(it), failAt, err)

BusDataIt(value, failAt, err) ==
  BusRun("data_it", value, 0, <<>>, ProgDataIt(it, value), failAt, err)

BusSetBacklight(on, failAt, err) ==
  BusRun("set_backlight", IF on THEN 1 ELSE 0, 0, <<>>,
         ProgSetBacklight(mapping, pcf_state, on), failAt, err)

\* init(); lastOp.text keeps the linear index and the backlight state
\* (1: on) the driver had before the call
BusInit(failAt, err) ==
  BusRun("lcd.init", 0, 0, <<it, IF backlight_on THEN 1 ELSE 0>>,
         ProgInit(mapping), failAt, err)

\* create_char(location, pattern): the argument check comes first
BusCreateChar(location, pattern, failAt, err) ==
  IF CreateCharRaises(location, pattern)
    THEN /\ raised' = ValueError
         /\ bus' = <<>>
         /\ fault' = <<failAt, err>>
         /\ calls' = <<>>
         /\ lastOp' = Op("create_char", location, 0, pattern, TRUE, failAt)
         /\ run' = [start |-> it, len |-> 0]
         /\ UNCHANGED <<lcdsVars, hist, menuVars, mapping, pcf_state, backlight_on, it,
                        ctrl>>
    ELSE BusRun("create_char", location, 0, pattern,
                ProgCreateChar(location, pattern), failAt, err)

(***************************************************************************)
(* Operations of the menu engine on the root menu.                         *)
(***************************************************************************)
nonMenuVars == <<lcdsVars, it, busVars, calls, hist, run, widget, ctrl>>

MaxEditLen == 1                    \* longest text typed into an editor

RECURSIVE EditUse(_)
\* the longest text held by an editor of the menu or by the name it commits to
EditUse(w) ==
  CASE w.kind = "Menu" ->
         IF w.lines = <<>> THEN 0
         ELSE Max({EditUse(w.lines[k]) : k \in 1 .. Len(w.lines)})
    [] w.kind = "Switch" ->
         IF w.edit = NoEdit THEN Len(w.name) ELSE w.edit.children_num
    [] w.kind = "Edit" -> w.children_num
    [] OTHER -> 0

\* Menu(name, event) and its add_line calls
MenuNew(tree) ==
  /\ menu' = tree
  /\ mrv' = NONE
  /\ mlog' = <<>>
  /\ rendered' = <<>>
  /\ lastOp' = Op("menu_new", 0, 0, tree.name, FALSE, 0)
  /\ UNCHANGED nonMenuVars

\* menu.menu_action(action)
MenuDo(action) ==
  \E r \in {MenuAction(menu, action)} :
    /\ EditUse(r.w) <= MaxEditLen
    /\ menu' = r.w
    /\ mrv' = r.rv
    /\ mlog' = r.log
    /\ rendered' = <<>>
    /\ lastOp' = Op("menu_action", 0, 0, <<>>, FALSE, action)
    /\ UNCHANGED nonMenuVars

\* menu.set_rows_hint(rows)
MenuSetRowsHint(rows) ==
  /\ menu' = SetRowsHint(menu, rows)
  /\ mrv' = NONE
  /\ mlog' = <<>>
  /\ rendered' = <<>>
  /\ lastOp' = Op("set_rows_hint", 0, rows, <<>>, FALSE, 0)
  /\ UNCHANGED nonMenuVars

\* menu.render(cols, rows)
MenuRender(cols, rows) ==
  /\ rendered' = Render(menu, cols, rows)
  /\ mrv' = NONE
  /\ mlog' = <<>>
  /\ lastOp' = Op("render", cols, rows, <<>>, FALSE, 0)
  /\ UNCHANGED <<menu, nonMenuVars>>

(***************************************************************************)
(* Operations on a widget used on its own.                                 *)
(***************************************************************************)
MaxTyped == 4                      \* longest text typed into the editor on its own

widgetFrame == <<lcdsVars, it, mapping, pcf_state, backlight_on, bus, fault,
                 calls, hist, run, menu, mlog, ctrl>>

\* the constructor of a widget class; err is the error it raises
WidgetNew(w, err) ==
  /\ widget' = IF err = NoError THEN w ELSE widget
  /\ raised' = err
  /\ mrv' = NONE
  /\ rendered' = <<>>
  /\ lastOp' = Op("widget_new", 0, 0, <<w>>, err # NoError, 0)
  /\ UNCHANGED widgetFrame

\* widget.action(line, action)
WidgetDo(action) ==
  \E r \in {LeafAction(widget, action)} :
    /\ widget' = r.w
    /\ mrv' = r.rv
    /\ raised' = NoError
    /\ rendered' = <<>>
    /\ lastOp' = Op("action", 0, 0, <<>>, FALSE, action)
    /\ UNCHANGED widgetFrame

\* Edit.action(line, DIGIT_BASE + code), while fewer than MaxTyped bytes are held
EditDoType(action) ==
  /\ widget.kind = "Edit"
  /\ widget.children_num < MaxTyped
  /\ WidgetDo(action)

\* Edit.set(text)
EditDoSet(text) ==
  /\ widget.kind = "Edit"
  /\ widget' = EditSet(widget, text)
  /\ mrv' = NONE
  /\ raised' = NoError
  /\ rendered' = <<>>
  /\ lastOp' = Op("set", 0, 0, text, FALSE, 0)
  /\ UNCHANGED widgetFrame

\* Edit.print(line, size)
EditDoPrint(size) ==
  /\ widget.kind = "Edit"
  /\ rendered' = EditPrint(widget, size)
  /\ mrv' = NONE
  /\ raised' = NoError
  /\ lastOp' = Op("print", size, 0, <<>>, FALSE, 0)
  /\ UNCHANGED <<widget, widgetFrame>>

MaxTimeStep == 2                   \* RIGHT is pressed on a time field within this
                                   \* distance of 0, from either side

\* TimeItem.action(line, RIGHT) on a field close to its wrap; the other
\* actions of the widgets that hold a value
ValueDo(action) ==
  /\ widget.kind \in {"RangeItem", "EnumItem", "TimeItem"}
  /\ (widget.kind = "TimeItem" /\ action = RIGHT) =>
       LET v == IF widget.it = 0 THEN widget.h
                ELSE IF widget.it = 1 THEN widget.m ELSE widget.s
           modulus == IF widget.it = 0 THEN 24 ELSE 60
       IN  v < MaxTimeStep \/ v >= modulus - MaxTimeStep
  /\ WidgetDo(action)

\* RangeItem.set_value(value)
RangeDoSetValue(value) ==
  /\ widget.kind = "RangeItem"
  /\ \E r \in {RangeSetValue(widget, value)} :
       /\ widget' = r.w
       /\ mrv' = r.rv
  /\ raised' = NoError
  /\ rendered' = <<>>
  /\ lastOp' = Op("set_value", 0, 0, <<value>>, FALSE, 0)
  /\ UNCHANGED widgetFrame

\* EnumItem.set_pos(pos)
EnumDoSetPos(pos) ==
  /\ widget.kind = "EnumItem"
  /\ \E r \in {EnumSetPos(widget, pos)} :
       /\ widget' = r.w
       /\ mrv' = r.rv
  /\ raised' = NoError
  /\ rendered' = <<>>
  /\ lastOp' = Op("set_pos", 0, 0, <<pos>>, FALSE, 0)
  /\ UNCHANGED widgetFrame

\* TimeItem.set_value(hour, minute, second)
TimeDoSetValue(hour, minute, second) ==
  /\ widget.kind = "TimeItem"
  /\ widget' = TimeSetValue(widget, hour, minute, second)
  /\ mrv' = NONE
  /\ raised' = NoError
  /\ rendered' = <<>>
  /\ lastOp' = Op("set_value", 0, 0, <<hour, minute, second>>, FALSE, 0)
  /\ UNCHANGED widgetFrame

(***************************************************************************)
(* Spec: the buffered screen, every operation, with bus failures.          *)
(***************************************************************************)
SpecWrites == {<<Cols - 1, 0>>, <<0, 0 - 1>>} \X {<<>>, TextDeg}

Next ==
  \/ DoClear
  \/ \E row \in RowArgs : DoClearLine(row)
  \/ \E w \in SpecWrites : DoWriteAt(w[1][1], w[1][2], w[2])
  \/ \E text \in {<<>>, TextAnB} : DoPuts(text)
  \/ DoResetDynamicChars
  \/ \E fail \in FailPoints : DoFlush(fail)

Spec == Init /\ [][Next]_vars

(***************************************************************************)
(* SpecBuf: the buffer operations over every argument, no refresh.         *)
(***************************************************************************)
NextBuf ==
  \/ DoClear
  \/ \E row \in RowArgs : DoClearLine(row)
  \/ \E col \in ColArgs, row \in RowArgs, text \in {<<>>, TextLong} :
       DoWriteAt(col, row, text)
  \/ \E text \in {<<>>, TextAB, TextCD, TextAnB, TextC, TextWrap} : DoPuts(text)

SpecBuf == Init /\ [][NextBuf]_vars

(***************************************************************************)
(* SpecGlyph: the glyph cache under nine distinct catalog characters.      *)
(***************************************************************************)
GlyphWrites == {<<0, 0, Glyphs1>>, <<0, Rows - 1, Glyphs2>>, <<0, 0, Glyphs3>>}

NextGlyph ==
  \/ DoClear
  \/ \E row \in RowArgs : DoClearLine(row)
  \/ \E w \in GlyphWrites : DoWriteAt(w[1], w[2], w[3])
  \/ DoResetDynamicChars
  \/ \E fail \in FailPoints : DoFlush(fail)

SpecGlyph == Init /\ [][NextGlyph]_vars

(***************************************************************************)
(* SpecGlyph8: the glyph cache under exactly eight distinct catalog        *)
(* characters and one plain character.                                     *)
(***************************************************************************)
Glyphs4 == <<322, 65, 321>>                   \* two catalog characters around "A"

GlyphWrites8 == {<<0, 0, Glyphs1>>, <<0, Rows - 1, Glyphs2>>, <<0, 0, Glyphs4>>}

NextGlyph8 ==
  \/ DoClear
  \/ \E row \in RowArgs : DoClearLine(row)
  \/ \E w \in GlyphWrites8 : DoWriteAt(w[1], w[2], w[3])
  \/ DoResetDynamicChars
  \/ \E fail \in FailPoints : DoFlush(fail)

SpecGlyph8 == Init /\ [][NextGlyph8]_vars

(***************************************************************************)
(* SpecDrv: the cursor operations of the driver.                           *)
(***************************************************************************)
NextDrv ==
  \/ LcdClear
  \/ LcdHome
  \/ \E col \in ColArgs, row \in RowArgs : LcdSetCursor(col, row)
  \/ LcdLine1
  \/ LcdLine2
  \/ \E x \in ColArgs, y \in RowArgs : LcdGotoxy(x, y)
  \/ LcdUp
  \/ LcdDown
  \/ LcdCurleft
  \/ LcdCurright
  \/ LcdDataIt(65)

SpecDrv == Init /\ [][NextDrv]_vars

(***************************************************************************)
(* SpecBus: the driver over the expander, with pin maps and bus failures.  *)
(***************************************************************************)
MaxFailAt == 7

\* <<failAt, err>>: no failure, an OSError at each of the first writes, and a
\* second kind of error at the first
BusFails ==
  {<<0, NoError>>} \cup ((1 .. MaxFailAt) \X {"OSError"}) \cup {<<1, "TimeoutError">>}

\* pin maps passed to the constructor: two of pins.py, one with the backlight
\* active low, one with a bit outside 0..7 and one whose signals share a bit
ActiveLow == PinMapping(0, 2, 1, 3, 4, 5, 6, 7, FALSE)
OutOfRange == PinMapping(0, 1, 2, 3, 4, 5, 6, 8, TRUE)
SharedRsE == PinMapping(2, 1, 2, 3, 4, 5, 6, 7, TRUE)
PinMaps == {VARIANT_A, VARIANT_C, ActiveLow, OutOfRange, SharedRsE}

PatternA == <<2, 4, 22, 25, 17, 17, 17, 0>>
CreateCharArgs ==
  {<<5, PatternA>>, <<0 - 1, PatternA>>, <<8, PatternA>>,
   <<5, SubSeq(PatternA, 1, 7)>>, <<5, PatternA \o <<31>>>>}

NextBus ==
  \/ \E m \in PinMaps : BusNew(m)
  \/ \E f \in BusFails :
       \/ BusCommand(1, f[1], f[2])
       \/ BusWriteChar(165, f[1], f[2])
       \/ BusClear(f[1], f[2])
       \/ \E a \in {<<0, 0>>, <<Cols, Rows - 1>>} : BusSetCursor(a[1], a[2], f[1], f[2])
       \/ BusCurright(f[1], f[2])
       \/ BusDataIt(90, f[1], f[2])
       \/ \E on \in BOOLEAN : BusSetBacklight(on, f[1], f[2])
       \/ \E a \in CreateCharArgs : BusCreateChar(a[1], a[2], f[1], f[2])

SpecBus == Init /\ [][NextBus]_vars

(***************************************************************************)
(* SpecInit: init() of the driver from every backlight state and cursor    *)
(* position, over three pin maps.                                          *)
(***************************************************************************)
InitPinMaps == {VARIANT_A, VARIANT_C, ActiveLow}

NextInit ==
  \/ \E m \in InitPinMaps : BusNew(m)
  \/ \E f \in BusFails :
       \/ BusInit(f[1], f[2])
       \/ \E on \in BOOLEAN : BusSetBacklight(on, f[1], f[2])
       \/ \E a \in {<<0, 0>>, <<Cols, Rows - 1>>} : BusSetCursor(a[1], a[2], f[1], f[2])
       \/ BusDataIt(90, f[1], f[2])

SpecInit == Init /\ [][NextInit]_vars

(***************************************************************************)
(* SpecMenu: the menu engine: navigation, submenus, the observer, render.  *)
(***************************************************************************)
DigitX == DIGIT_BASE + 120
MenuInputs == {NONE, OK, LEFT, UP, DOWN, BREAK, DigitX}
RowsHints == {0, 3}
RenderArgs == {<<0, 2>>, <<1, 1>>, <<2, 3>>, <<6, 2>>, <<7, 5>>}

NextMenu ==
  \/ \E tree \in MenuTrees : MenuNew(tree)
  \/ \E action \in MenuInputs : MenuDo(action)
  \/ \E rows \in RowsHints : MenuSetRowsHint(rows)
  \/ \E a \in RenderArgs : MenuRender(a[1], a[2])

SpecMenu == Init /\ [][NextMenu]_vars

(***************************************************************************)
(* SpecEdit: the text editor on its own: typing, deleting, Edit.set, with  *)
(* the default editor and one of capacity 3.                               *)
(***************************************************************************)
SmallMaxLen == 5
TextABCDE == <<65, 66, 67, 68, 69>>     \* "ABCDE"
EditDigits == {DIGIT_BASE + 65, DIGIT_BASE + 66, DIGIT_BASE + 67}
EditKeys == {LEFT, RIGHT, BREAK, ON_ENTER, ON_LEAVE}

EditWidgets == {NewEdit(SmallMaxLen), NewEdit(EditMaxLen)}

NextEdit ==
  \/ \E w \in EditWidgets : WidgetNew(w, NoError)
  \/ \E action \in EditKeys : WidgetDo(action)
  \/ \E action \in EditDigits : EditDoType(action)
  \/ \E text \in {<<>>, TextABCDE} : EditDoSet(text)
  \/ \E size \in {1, 5} : EditDoPrint(size)

SpecEdit == Init /\ [][NextEdit]_vars

(***************************************************************************)
(* SpecEditScroll: the default text editor with texts longer than the      *)
(* width its scrolling assumes, and its print at several widths.           *)
(***************************************************************************)
MaxScrollTyped == 13
LongText == [k \in 1 .. 14 |-> 120]     \* "xxxxxxxxxxxxxx"
PrintSizes == {3, 4, 10, 16}

EditDoTypeLong(action) ==
  /\ widget.kind = "Edit"
  /\ widget.children_num < MaxScrollTyped
  /\ WidgetDo(action)

NextEditScroll ==
  \/ \E action \in {LEFT, RIGHT, BREAK, ON_ENTER} : WidgetDo(action)
  \/ EditDoTypeLong(DigitX)
  \/ EditDoSet(LongText)
  \/ \E size \in PrintSizes : EditDoPrint(size)

SpecEditScroll == Init /\ [][NextEditScroll]_vars

(***************************************************************************)
(* SpecValue: the range, enumeration and time widgets on their own.        *)
(***************************************************************************)
RangeMin == 0 - 1
RangeMax == 2
NameR == <<82>>                         \* "R"
Options == <<<<97>>, <<98>>, <<99>>>>   \* ("a", "b", "c")
ValueKeys == {NONE, OK, LEFT, RIGHT, ON_ENTER, ON_LEAVE}
TimeArgs == {<<23, 59, 59>>, <<24, 0 - 1, 60>>}

RangeWidgets ==
  {NewRangeItem(NameR, RangeMin, RangeMax, current) : current \in {RangeMin, 0}}
\* EnumItem(name, positions) over the first n options, with the error it raises
EnumWidgets ==
  {<<NewEnumItem(NameR, SubSeq(Options, 1, n)), EnumNewRaises(SubSeq(Options, 1, n))>> :
     n \in 0 .. Len(Options)}

NextValue ==
  \/ \E w \in RangeWidgets : WidgetNew(w, NoError)
  \/ \E c \in EnumWidgets : WidgetNew(c[1], c[2])
  \/ WidgetNew(NewTimeItem, NoError)
  \/ \E action \in ValueKeys : ValueDo(action)
  \/ \E value \in (RangeMin - 1) .. (RangeMax + 1) : RangeDoSetValue(value)
  \/ \E pos \in (0 - 1) .. Len(Options) : EnumDoSetPos(pos)
  \/ \E a \in TimeArgs : TimeDoSetValue(a[1], a[2], a[3])

SpecValue == Init /\ [][NextValue]_vars

(***************************************************************************)
(* SpecCtl: the buffered screen under texts holding control codes, NUL and *)
(* a character above U+00FF that the catalog does not have.                *)
(***************************************************************************)
TextCtl == <<1, 127, 8364>>                   \* "\x01\x7f" and the euro sign
TextNul == <<NUL, 159>>                       \* "\0\x9f"
CtlWrites == {<<0, 0>>, <<1, Rows - 1>>} \X {TextCtl, TextNul, TextDeg}

NextCtl ==
  \/ DoClear
  \/ \E w \in CtlWrites : DoWriteAt(w[1][1], w[1][2], w[2])
  \/ DoFlush(NoFail)

SpecCtl == Init /\ [][NextCtl]_vars

(***************************************************************************)
(* SpecDeep: submenus nested three deep below the root.                    *)
(***************************************************************************)
Level3 == NewMenu(<<51>>, <<NewOk(FALSE), NewSpace>>, FALSE)
Level2 == NewMenu(<<50>>, <<Level3, NewSpace>>, FALSE)
Level1 == NewMenu(<<49>>, <<Level2, NewSpace>>, FALSE)
DeepMenu == NewMenu(<<48>>, <<Level1, NewSpace>>, TRUE)
DeepTrees == {DeepMenu}

NextDeep ==
  \/ \E tree \in DeepTrees : MenuNew(tree)
  \/ \E action \in {NONE, OK, UP, DOWN, BREAK} : MenuDo(action)

SpecDeep == Init /\ [][NextDeep]_vars

(***************************************************************************)
(* SpecKeys: the text editor, alone and as the focused line of a menu,     *)
(* under the actions that are not editing keys.                            *)
(***************************************************************************)
OtherKeys == {NONE, OK, UP, DOWN}
EditMenu == NewMenu(<<69>>, <<NewEdit(SmallMaxLen), NewSpace>>, FALSE)
EditTrees == {EditMenu}

NextKeys ==
  \/ \E w \in EditWidgets : WidgetNew(w, NoError)
  \/ \E action \in OtherKeys \cup {LEFT, DIGIT_BASE + 65} : EditDoType(action)
  \/ \E tree \in EditTrees : MenuNew(tree)
  \/ \E action \in {OK, NONE} : MenuDo(action)

SpecKeys == Init /\ [][NextKeys]_vars

(***************************************************************************)
(* SpecLcd: the cursor operations of the driver with the controller they   *)
(* address.                                                                *)
(***************************************************************************)
LcdCols == {-1, 1, Cols - 1, Cols}
LcdRows == {-1, 0, Rows - 1, Rows}

NextLcd ==
  \/ LcdClear
  \/ LcdHome
  \/ \E col \in LcdCols, row \in LcdRows : LcdSetCursor(col, row)
  \/ LcdLine1
  \/ LcdLine2
  \/ \E x \in LcdCols, y \in LcdRows : LcdGotoxy(x, y)
  \/ LcdUp
  \/ LcdDown
  \/ LcdCurleft
  \/ LcdCurright
  \/ LcdDataIt(65)
  \/ LcdBack

SpecLcd == InitLcd /\ [][NextLcd]_vars

(***************************************************************************)
(* SpecShow: buffer writes and flushes over a bus that never fails, with   *)
(* the display the controller shows.  The buffer has cols*rows cells, so   *)
(* it never holds more than NumSlots distinct catalog characters.          *)
(***************************************************************************)
NextShow ==
  \/ \E w \in GlyphWrites : DoWriteAt(w[1], w[2], w[3])
  \/ DoWriteAt(Cols - 1, Rows - 1, TextC)
  \/ DoFlush(NoFail)

SpecShow == InitLcd /\ [][NextShow]_vars

(***************************************************************************)
(* SpecFill: the text editor filled to its capacity, from empty or from a  *)
(* text given to Edit.set right after construction.                        *)
(***************************************************************************)
FillText == [k \in 1 .. 20 |-> 120]     \* "xxxxxxxxxxxxxxxxxxxx"
FillWidgets == {NewEdit(16)}

\* Edit.set(text) on an editor as constructed
EditDoInit(text) ==
  /\ widget = NewEdit(widget.max_len)
  /\ EditDoSet(text)

NextFill ==
  \/ \E w \in FillWidgets : WidgetNew(w, NoError)
  \/ \E action \in {LEFT, RIGHT, BREAK, ON_ENTER, ON_LEAVE, DigitX} : WidgetDo(action)
  \/ EditDoInit(FillText)

SpecFill == Init /\ [][NextFill]_vars

(***************************************************************************)
(* SpecScroll: a menu whose rows hint is set once, before the first        *)
(* action, and which is rendered over as many rows as the hint says.       *)
(***************************************************************************)
ScrollHints == {1, 3, 5}
ScrollCols == {2, 6}

\* set_rows_hint(rows) on a menu as constructed
MenuHintFirst(rows) ==
  /\ menu \in MenuTrees
  /\ MenuSetRowsHint(rows)

\* render(cols, rows) with the rows of the hint
MenuRenderHint(cols) ==
  \E rows \in {RowsHint(menu)} : MenuRender(cols, rows)

NextScroll ==
  \/ \E tree \in MenuTrees : MenuNew(tree)
  \/ \E rows \in ScrollHints : MenuHintFirst(rows)
  \/ \E action \in MenuInputs : MenuDo(action)
  \/ \E cols \in ScrollCols : MenuRenderHint(cols)

SpecScroll == Init /\ [][NextScroll]_vars

(***************************************************************************)
(* Properties of the buffered screen.                                      *)
(***************************************************************************)
Writes(cs) == {k \in 1 .. Len(cs) : cs[k].op = "write_char"}
WritesTo(cs, i) == {k \in Writes(cs) : cs[k].cell = i}
Creates(cs) == {k \in 1 .. Len(cs) : cs[k].op = "create_char"}

FlushReturned == lastOp.name = "flush" /\ ~lastOp.failed

\* C1: when flush() returns without a bus failure the shadow equals the
\* buffer cell for cell, and a second flush() issued immediately afterwards
\* makes no driver call at all.
C1_FlushIdempotent ==
  FlushReturned =>
    /\ shadow = buf
    /\ lastOp.run = 2 => calls = <<>>

C1_Witness ==
  /\ FlushReturned /\ lastOp.run = 2 /\ calls = <<>>
  /\ buf[FailCell] = 176 /\ buf[Cols] = 66

\* C2: a flush() writes only cells whose buffer character differs from the
\* shadow at entry, each at most once, and a flush() that returns writes
\* each of them exactly once, so that the number of write_char calls is the
\* number of differing cells.
C2_MinimalDiff ==
  [][lastOp'.name = "flush" =>
       LET diff == {i \in Cells : buf[i] # shadow[i]} IN
       /\ \A i \in Cells \ diff : WritesTo(calls', i) = {}
       /\ \A i \in diff : Cardinality(WritesTo(calls', i)) <= 1
       /\ ~lastOp'.failed =>
            /\ \A i \in diff : Cardinality(WritesTo(calls', i)) = 1
            /\ Cardinality(Writes(calls')) = Cardinality(diff)]_vars

C2_Witness ==
  /\ FlushReturned
  /\ Cardinality(Writes(calls)) = 2
  /\ WritesTo(calls, 0) # {} /\ WritesTo(calls, FailCell) # {}

\* C3: write_at(col, row, text) changes only the cells of row `row` in
\* columns max(col,0) .. min(max(col,0)+len(text), cols)-1, which receive the
\* leading characters of text; every other cell, the shadow, the remembered
\* puts line and the glyph cache are unchanged; an out-of-range row changes
\* nothing and no text reaches another row.
C3_WriteAtFrame ==
  [][lastOp'.name = "write_at" =>
       LET col == lastOp'.col
           row == lastOp'.row
           text == lastOp'.text
           c0 == Max2(col, 0)
           range == IF row < 0 \/ row >= Rows THEN {}
                    ELSE {row * Cols + c : c \in c0 .. (Min2(c0 + Len(text), Cols) - 1)}
       IN  /\ \A i \in Cells \ range : buf'[i] = buf[i]
           /\ \A i \in range : buf'[i] = text[i - (row * Cols + c0) + 1]
           /\ UNCHANGED <<shadow, puts_line, cacheVars>>]_vars

C3_Witness ==
  /\ lastOp.name = "write_at" /\ lastOp.col = Cols - 1 /\ lastOp.row = 0
  /\ lastOp.text = TextLong
  /\ buf[Cols - 1] = TextLong[1]
  /\ buf[Cols] = 66

\* where puts places the k-th character of text, entered with line `line`
PutsCell(text, k, line) ==
  LET breaks == {j \in 1 .. (k - 1) : text[j] = Newline}
      row == (line + Cardinality(breaks)) % Rows
      col == (k - 1 - Max({0} \cup breaks)) % Cols
  IN  row * Cols + col

\* C9: puts(text) with non-empty text blanks the row remembered at entry and
\* no other row, writes from column 0 wrapping the column inside the row,
\* moves to the next row (modulo rows) at column 0 on each line break without
\* blanking it, and remembers the final row.
C9_PutsLineBased ==
  [][(lastOp'.name = "puts" /\ lastOp'.text # <<>>) =>
       LET text == lastOp'.text
           chars == {k \in 1 .. Len(text) : text[k] # Newline}
           at(i) == {k \in chars : PutsCell(text, k, puts_line) = i}
       IN  /\ \A i \in Cells :
                buf'[i] = IF at(i) # {} THEN text[Max(at(i))]
                          ELSE IF i \div Cols = puts_line THEN Blank
                          ELSE buf[i]
           /\ puts_line' = (puts_line + Len(text) - Cardinality(chars)) % Rows]_vars

\* puts("A\nB") then puts("C"): row 0 starts with "A", row 1 is "C" and blanks
C9_Witness ==
  /\ lastOp.name = "puts" /\ lastOp.text = TextC /\ puts_line = 1
  /\ buf[0] = 65
  /\ buf[Cols] = 67
  /\ \A c \in 1 .. (Cols - 1) : buf[Cols + c] = Blank

(***************************************************************************)
(* Properties of the glyph cache.                                          *)
(***************************************************************************)
LiveChars == DOMAIN dyn_char_to_slot

\* C4: while at most 8 distinct catalog characters have gone through the
\* cache since it was empty (and no bus failure), no mapping has been removed
\* and each of them was programmed exactly once; a create_char issued while
\* fewer than 8 characters are mapped evicts nothing.
C4_NoEvictionUpTo8 ==
  /\ (hist.clean /\ ~hist.over) =>
       /\ LiveChars = hist.rendered
       /\ \A ch \in hist.rendered : hist.created[ch] = 1
  /\ \A k \in Creates(calls) : ~calls[k].full => calls[k].evicted = {}

C4_Witness ==
  /\ FlushReturned /\ hist.clean /\ ~hist.over
  /\ Cardinality(hist.rendered) = NumSlots
  /\ Cardinality(LiveChars) = NumSlots
  /\ dyn_used_mask # FullMask
  /\ Creates(calls) = {} /\ Cardinality(Writes(calls)) = Cols

\* C5: a create_char issued while 8 characters are mapped evicts exactly one
\* character, the one mapped longest ago, whose slot is the one programmed;
\* the slots evicted since the cache was empty are 0, 1, 2, ... modulo 8, and
\* the pattern programmed is the new character's.
C5_RoundRobin ==
  \A k \in Creates(calls) :
    calls[k].full =>
      /\ calls[k].evicted = {<<calls[k].oldest, calls[k].slot>>}
      /\ calls[k].slot = calls[k].nth
      /\ calls[k].pattern = DynCharset[calls[k].ch].pattern

C5_Witness ==
  \E k \in Creates(calls) : calls[k].full /\ calls[k].nth = NumSlots - 1

AfterFlushOrReset == lastOp.name \in {"flush", "reset_dynamic_chars"}

\* C6 as claimed: after every flush() and after reset_dynamic_chars() the
\* number of set bits of the used-slot mask is the number of live mappings.
C6_Original ==
  AfterFlushOrReset => PopCount(dyn_used_mask) = Cardinality(LiveChars)

\* C6 as amended: after every flush() and after reset_dynamic_chars() every
\* set bit of the used-slot mask is the slot of a live mapping, and the live
\* mappings outnumber the set bits by at most one.
C6_MaskWithinMappings ==
  AfterFlushOrReset =>
    /\ \A s \in Slots :
         Bit(dyn_used_mask, s) =>
           /\ dyn_slot_to_char[s] \in LiveChars
           /\ dyn_char_to_slot[dyn_slot_to_char[s]] = s
    /\ Cardinality(LiveChars) - PopCount(dyn_used_mask) \in {0, 1}

C6_Witness ==
  /\ FlushReturned
  /\ Cardinality(LiveChars) = NumSlots
  /\ PopCount(dyn_used_mask) = NumSlots - 1

\* C7 as claimed: after a flush() that returns, with dynamic characters
\* enabled, every catalog character in a buffer cell has a live mapping.
C7_Original ==
  (FlushReturned /\ use_dynamic_chars) =>
    \A i \in Cells : buf[i] \in Catalog => buf[i] \in LiveChars

\* C8: with dynamic characters enabled slot allocation never fails in
\* flush(): no write_char carries the ASCII fallback of a catalog character.
C8_NoFallback ==
  use_dynamic_chars => \A k \in Writes(calls) : ~calls[k].fallback

C8_Witness ==
  /\ use_dynamic_chars /\ FlushReturned
  /\ \E k \in Creates(calls) :
       /\ calls[k].full
       /\ calls[k + 2].op = "write_char" /\ calls[k + 2].code = calls[k].slot

(***************************************************************************)
(* Properties of the driver's cursor.                                      *)
(***************************************************************************)
\* C10: from any linear cursor position cols*rows consecutive curright()
\* calls bring the linear index back to where the run started; a curright()
\* that lands on column 0 of a row sends exactly the set-address command of
\* that row's first cell, and one that stays inside a row sends nothing.
C10_CurrightLap ==
  [][lastOp'.name = "curright" =>
       /\ run'.len = Size => it' = run'.start
       /\ calls' = IF it' % Cols = 0
                     THEN <<[op |-> "command",
                             value |-> LCDC_DDA + RowOffsets[(it' \div Cols) + 1]]>>
                   ELSE <<>>]_vars

\* a full lap started on the first cell of the second row ends by crossing
\* the row boundary onto it again
C10_Witness ==
  /\ lastOp.name = "curright"
  /\ run = [start |-> Cols, len |-> Size]
  /\ it = Cols
  /\ calls = <<[op |-> "command", value |-> 192]>>

\* the clamped value of v in 0 .. n-1
Clamped(v, n) == IF v < 0 THEN 0 ELSE IF v > n - 1 THEN n - 1 ELSE v

\* DDRAM address of the first cell of a row
RowBase(row) == IF row = 0 THEN 0 ELSE IF row = 1 THEN 64 ELSE IF row = 2 THEN 20 ELSE 84

\* C11: set_cursor(col,row) clamps col into 0..cols-1 and row into 0..rows-1,
\* sends the single command byte 0x80 | (offset[row] + col) with offsets 0x00,
\* 0x40, 0x14, 0x54 for rows 0..3, and leaves the linear index at
\* row*cols+col of the clamped values; checked on the steps of the configured
\* driver and, for the function itself, on a 16x4 driver for every argument
\* from one below to one above the range.
C11_SetCursorClamps ==
  [][/\ lastOp'.name = "set_cursor" =>
          LET c == Clamped(lastOp'.col, Cols)
              r == Clamped(lastOp'.row, Rows)
          IN  /\ calls' = <<[op |-> "command", value |-> 128 + RowBase(r) + c]>>
              /\ it' = r * Cols + c
     /\ \A col \in (0 - 1) .. DefaultCols, row \in (0 - 1) .. Len(RowOffsets) :
          SetCursorOn(DefaultCols, Len(RowOffsets), col, row)
            = [cmd |-> 128 + RowBase(Clamped(row, Len(RowOffsets)))
                           + Clamped(col, DefaultCols),
               it |-> Clamped(row, Len(RowOffsets)) * DefaultCols
                        + Clamped(col, DefaultCols)]]_vars

\* set_cursor(cols, rows): both arguments one past the range
C11_Witness ==
  /\ lastOp.name = "set_cursor" /\ lastOp.col = Cols /\ lastOp.row = Rows
  /\ it = Size - 1
  /\ calls = <<[op |-> "command", value |-> 128 + RowBase(Rows - 1) + Cols - 1]>>

(***************************************************************************)
(* Properties of the driver over the expander.                             *)
(***************************************************************************)
PinsDistinct(m) ==
  \A j, k \in 1 .. 8 : j # k => PinsOf(m)[j] # PinsOf(m)[k]

SendsBytes == lastOp.name \notin {"init", "new", "set_backlight"}

\* C12: every command or data byte the driver sends makes six bus writes:
\* high nibble with E low, high, low, then the low nibble the same way; in
\* all six RW is 0, RS is 1 exactly for data, and D4..D7 carry nibble bits
\* 0..3 (pin map with eight distinct bits; a method cut short by a bus
\* failure has written a prefix of these).
C12_SixWritesPerByte ==
  (SendsBytes /\ PinsDistinct(mapping)) =>
    /\ raised = NoError => Len(bus) = 6 * Len(calls)
    /\ Len(bus) <= 6 * Len(calls)
    /\ \A p \in 1 .. Len(bus) :
         LET j == ((p - 1) \div 6) + 1
             t == ((p - 1) % 6) + 1
             v == calls[j].value
             nib == IF t <= 3 THEN v \div 16 ELSE v % 16
         IN  /\ Bit(bus[p], mapping.e) = (t \in {2, 5})
             /\ ~Bit(bus[p], mapping.rw)
             /\ Bit(bus[p], mapping.rs) = (calls[j].op = "data")
             /\ Bit(bus[p], mapping.d4) = Bit(nib, 0)
             /\ Bit(bus[p], mapping.d5) = Bit(nib, 1)
             /\ Bit(bus[p], mapping.d6) = Bit(nib, 2)
             /\ Bit(bus[p], mapping.d7) = Bit(nib, 3)

\* a data byte sent with the backlight bit set, data pins on the low bits
C12_Witness ==
  /\ lastOp.name = "write_char" /\ raised = NoError
  /\ mapping = VARIANT_C /\ pcf_state = 128
  /\ calls = <<[op |-> "data", value |-> 165]>>
  /\ bus = <<154, 218, 154, 149, 213, 149>>

\* C13: create_char(location, pattern) with location outside 0..7 or a
\* pattern not 8 bytes long raises before any bus write and leaves the driver
\* as it was; with valid arguments it sends command 0x40 | (location << 3)
\* and then the 8 pattern bytes as data, in order (all of them unless the bus
\* fails), and the linear cursor index does not change.
C13_CreateChar ==
  [][lastOp'.name = "create_char" =>
       LET location == lastOp'.col
           pattern == lastOp'.text
           sent == <<[op |-> "command", value |-> 64 + 8 * location]>>
                     \o [k \in 1 .. 8 |-> [op |-> "data", value |-> pattern[k]]]
       IN  IF location \notin 0 .. 7 \/ Len(pattern) # 8
             THEN /\ raised' = ValueError
                  /\ bus' = <<>>
                  /\ UNCHANGED <<it, mapping, pcf_state, backlight_on>>
             ELSE /\ it' = it
                  /\ raised' # ValueError
                  /\ Len(calls') <= 9 /\ calls' = SubSeq(sent, 1, Len(calls'))
                  /\ raised' = NoError => calls' = sent]_vars

\* slot 5 programmed with the cursor on the second row
C13_Witness ==
  /\ lastOp.name = "create_char" /\ raised = NoError
  /\ it = Cols
  /\ Len(bus) = 54
  /\ calls[1] = [op |-> "command", value |-> 104]
  /\ \A k \in 1 .. 8 : calls[k + 1] = [op |-> "data", value |-> PatternA[k]]

\* C14: when a bus write fails during a driver operation the operation ends
\* with the error the bus raised, the failing write is the last write of the
\* operation (none follows, none is repeated), and a write that failed is
\* never passed over in silence.
C14_BusFailurePropagates ==
  (lastOp.name \notin {"init", "new"}) =>
    /\ raised = NoError => (fault[1] = 0 \/ Len(bus) < fault[1])
    /\ raised \notin {NoError, ValueError} =>
         /\ raised = fault[2]
         /\ Len(bus) = fault[1]

\* data_it at the end of row 0: the data byte is out, the row change fails
C14_Witness ==
  /\ lastOp.name = "data_it" /\ fault = <<7, "OSError">> /\ raised = "OSError"
  /\ Len(bus) = 7 /\ Len(calls) = 2
  /\ it = Cols

\* C15 as claimed: constructing the driver with a pin map in which two
\* signals share a bit, or a bit is outside 0..7, ends with an error.
C15_Original ==
  (/\ lastOp.name = "new"
   /\ \/ \E k \in 1 .. 8 : lastOp.text[k] \notin 0 .. 7
      \/ \E j, k \in 1 .. 8 : j # k /\ lastOp.text[j] = lastOp.text[k])
    => raised # NoError

(***************************************************************************)
(* Properties of the menu engine.                                          *)
(***************************************************************************)
MenuActed(action) == lastOp'.name = "menu_action" /\ lastOp'.run = action

\* the focused line of a menu
Focused(m) == m.lines[m.child_it + 1]

\* the menu that handles an action given to the root: the innermost active one
RECURSIVE ActiveMenu(_)
ActiveMenu(m) == IF m.sub THEN ActiveMenu(Focused(m)) ELSE m

\* m2 is menu m after DOWN or UP moved its focus as C16 says
Navigated(m, m2, action) ==
  LET n == Len(m.lines)
      hint == IF m.last_rows < 1 THEN 1 ELSE m.last_rows
  IN  /\ action = DOWN =>
           /\ m2.child_it = (m.child_it + 1) % n
           /\ m2.cur_line = IF m.cur_line < hint - 1 /\ m.cur_line < n - 1
                              THEN m.cur_line + 1 ELSE m.cur_line
      /\ action = UP =>
           /\ m2.child_it = (m.child_it + n - 1) % n
           /\ m2.cur_line = IF m.cur_line > 0 THEN m.cur_line - 1 ELSE m.cur_line

ThreeDowns == MenuAction(MenuAction(MenuAction(MainMenu, DOWN).w, DOWN).w, DOWN).w

\* C16: with no submenu open and the focused line not grabbing, DOWN moves
\* the focus to (focus+1) mod n and UP to (focus-1) mod n; DOWN adds one to
\* the scroll offset exactly when it is below both rows_hint-1 and n-1, UP
\* takes one off exactly when it is above 0 (the same holds in the active
\* submenu the action is delegated to).  In the 4-item menu with window
\* height 2 and focus 0, three DOWNs give focus 3 and scroll 1, and the
\* two rendered rows are item 2 and "> " with item 3.
C16_Navigation ==
  [][/\ \A action \in {DOWN, UP} :
          (/\ MenuActed(action)
           /\ ActiveMenu(menu).lines # <<>>
           /\ ~Grab(Focused(ActiveMenu(menu))))
          => /\ ~menu.sub => Navigated(menu, menu', action)
             /\ menu.sub /\ ~Focused(menu).sub
                  => Navigated(Focused(menu), Focused(menu'), action)
     /\ Len(MainMenu.lines) = 4 /\ MainMenu.last_rows = 2 /\ MainMenu.child_it = 0
     /\ ThreeDowns.child_it = 3 /\ ThreeDowns.cur_line = 1
     /\ Render(ThreeDowns, 6, 2) = << <<32, 32, 83, 32, 32, 32>>,
                                      <<62, 32, 83, 97, 118, 101>> >>]_vars

C16_Witness ==
  /\ lastOp.name = "render" /\ lastOp.col = 6 /\ lastOp.row = 2
  /\ Len(menu.lines) = 4 /\ menu.last_rows = 2 /\ ~menu.sub
  /\ menu.child_it = 3 /\ menu.cur_line = 1
  /\ rendered = << <<32, 32, 83, 32, 32, 32>>, <<62, 32, 83, 97, 118, 101>> >>

\* C17: while the focused line grabs (a Switch with its editor open), an UP
\* or DOWN given to the menu changes nothing in the menu: focus, scroll
\* and every line's state stay as they were, and no line is sent anything,
\* ON_LEAVE and ON_ENTER included.
C17_GrabKeepsFocus ==
  [][\A action \in {UP, DOWN} :
       (MenuActed(action) /\ ActiveMenu(menu).lines # <<>>
          /\ Grab(Focused(ActiveMenu(menu))))
       => /\ menu' = menu
          /\ \A k \in 1 .. Len(mlog') : mlog'[k].to # "line"]_vars

C17_Witness ==
  /\ lastOp.name = "menu_action" /\ lastOp.run = DOWN
  /\ ~menu.sub /\ menu.child_it = 1 /\ menu.cur_line = 1
  /\ Focused(menu).kind = "Switch" /\ Focused(menu).edit # NoEdit
  /\ mlog = <<EventCall(menu, DOWN)>>
  /\ mrv = DOWN

\* C18: OK on a focused line that exposes a submenu makes that submenu the
\* active one; while a submenu is active every action is handed to it, the
\* parent's focus index, scroll offset and other lines stay as they are;
\* when the submenu returns BREAK the parent clears its active submenu and
\* returns NONE.
C18_SubmenuDelegation ==
  [][\A action \in MenuInputs :
       (MenuActed(action) /\ menu.lines # <<>>) =>
         /\ (action = OK /\ ~menu.sub /\ HasSubmenu(Focused(menu)))
              => /\ menu'.sub
                 /\ menu'.child_it = menu.child_it
                 /\ menu'.cur_line = menu.cur_line
         /\ menu.sub =>
              LET r == MenuAction(Focused(menu), action)
              IN  /\ mlog' = <<SentToSub(menu, action)>> \o r.log
                  /\ menu'.child_it = menu.child_it
                  /\ menu'.cur_line = menu.cur_line
                  /\ \A k \in 1 .. Len(menu.lines) :
                       menu'.lines[k] = IF k = menu.child_it + 1 THEN r.w
                                        ELSE menu.lines[k]
                  /\ r.rv = BREAK => ~menu'.sub /\ mrv' = NONE]_vars

C18_Witness ==
  /\ lastOp.name = "menu_action" /\ lastOp.run = OK
  /\ ~menu.sub /\ menu.child_it = 2 /\ Focused(menu).kind = "Menu"
  /\ mrv = NONE
  /\ Len(mlog) = 4
  /\ mlog[1] = SentToSub(menu, OK)
  /\ mlog[2] = SentToLine(Focused(menu), 0, OK)
  /\ mlog[3].to = "commit"
  /\ mlog[4] = EventCall(Focused(menu), OK)

\* C19 as the specification states it: when OK goes to a menu whose focused
\* line has no submenu and the line's handler returns BREAK (the Ok widget,
\* a Switch committing its edit), the observer is not called.  The menu
\* here is the root: the operation's first log entry is the OK sent to its
\* focused line, and what the operation returns is what the line returned.
C19_Original ==
  (/\ lastOp.name = "menu_action" /\ lastOp.run = OK
   /\ mlog # <<>> /\ mlog[1] = SentToLine(menu, menu.child_it, OK)
   /\ mrv = BREAK)
  => \A k \in 1 .. Len(mlog) : mlog[k].to # "event"

\* C20: for cols > 0 and rows > 0, render(cols, rows) returns exactly rows
\* strings of exactly cols characters each; in the menu that is shown (the
\* one with no active submenu) row i < n holds, after a 2-character prefix
\* ("> " or two blanks), line (focus + i + n - scroll) mod n printed in
\* cols-2 cells, and the rows i >= n are all blank.
C20_RenderShape ==
  (lastOp.name = "render" /\ lastOp.col > 0 /\ lastOp.row > 0) =>
    LET cols == lastOp.col
        rows == lastOp.row
        shown == ActiveMenu(menu)
        n == Len(shown.lines)
    IN  /\ Len(rendered) = rows
        /\ \A i \in 0 .. rows - 1 :
             LET text == rendered[i + 1]
             IN  /\ Len(text) = cols
                 /\ i < n =>
                      /\ SubSeq(text, 1, Min2(2, cols)) \in
                           {SubSeq(<<62, 32>>, 1, Min2(2, cols)),
                            SubSeq(<<32, 32>>, 1, Min2(2, cols))}
                      /\ SubSeq(text, 3, cols) =
                           LinePrint(shown.lines[((shown.child_it + i + n
                                                     - shown.cur_line) % n) + 1],
                                     cols - 2)
                 /\ i >= n => \A k \in 1 .. cols : text[k] = Blank

C20_Witness ==
  /\ lastOp.name = "render" /\ lastOp.col = 7 /\ lastOp.row = 5
  /\ ~menu.sub /\ Len(menu.lines) = 4
  /\ menu.child_it = 1 /\ menu.cur_line = 1
  /\ Focused(menu).kind = "Switch" /\ Focused(menu).edit # NoEdit
  /\ Len(rendered) = 5
  /\ rendered[1] = <<32, 32, 65, 32, 91, 32, 93>>
  /\ rendered[2] = <<62, 32, 60, 66, 124, 32, 62>>
  /\ rendered[5] = <<32, 32, 32, 32, 32, 32, 32>>

(***************************************************************************)
(* Properties of the widgets.                                              *)
(***************************************************************************)
WidgetActed(action) ==
  lastOp'.name = "action" /\ lastOp'.run = action /\ widget'.kind = widget.kind

\* the text an editor holds: its first children_num bytes
Content(e) == SubSeq(e.input, 1, e.children_num)

\* C21: in the text editor BREAK with the cursor at c > 0 removes the byte
\* at index c-1, moves every later byte one place left and takes one off
\* both the cursor index and the length; BREAK with c = 0 changes nothing.
\* "ABC" typed into an empty editor and one BREAK leave "AB", cursor at 2.
C21_BreakDeletes ==
  [][/\ (WidgetActed(BREAK) /\ widget.kind = "Edit") =>
          LET c == widget.child_it
              n == widget.children_num
          IN  IF c > 0
                THEN /\ Content(widget') =
                          SubSeq(Content(widget), 1, c - 1) \o SubSeq(Content(widget), c + 1, n)
                     /\ widget'.child_it = c - 1
                     /\ widget'.children_num = n - 1
                ELSE widget' = widget
     /\ (WidgetActed(BREAK) /\ widget.kind = "Edit"
           /\ Content(widget) = <<65, 66, 67>> /\ widget.child_it = 3)
          => Content(widget') = <<65, 66>> /\ widget'.child_it = 2]_vars

C21_Witness ==
  /\ lastOp.name = "action" /\ lastOp.run = BREAK
  /\ widget.kind = "Edit" /\ widget.max_len = EditMaxLen
  /\ Content(widget) = <<65, 66>>
  /\ widget.child_it = 2
  /\ widget.input[3] = 0

\* C22: in the text editor DIGIT(code) with the buffer below capacity
\* (max_len - 2 bytes) puts the byte code at the cursor index, moves every
\* byte at or after the cursor one place right, losing none, and adds one
\* to cursor and length; at capacity buffer, cursor and length stay.
C22_DigitInserts ==
  [][\A action \in EditDigits :
       (WidgetActed(action) /\ widget.kind = "Edit") =>
         LET c == widget.child_it
             n == widget.children_num
         IN  IF n < widget.max_len - 2
               THEN /\ Content(widget') =
                         SubSeq(Content(widget), 1, c) \o <<action - DIGIT_BASE>>
                           \o SubSeq(Content(widget), c + 1, n)
                    /\ widget'.child_it = c + 1
                    /\ widget'.children_num = n + 1
               ELSE /\ widget'.input = widget.input
                    /\ widget'.child_it = c
                    /\ widget'.children_num = n]_vars

C22_Witness ==
  /\ lastOp.name = "action" /\ lastOp.run = DIGIT_BASE + 67
  /\ widget.kind = "Edit" /\ widget.max_len = SmallMaxLen
  /\ Content(widget) = <<65, 67, 66>>
  /\ widget.child_it = 2
  /\ widget.children_num = widget.max_len - 2

\* C23 as the specification states it: in the text editor LEFT and RIGHT
\* change the scroll offset only when the moved cursor would otherwise be
\* outside the visible window; when the moved cursor is still inside the
\* window (offset 0 .. width-1 from the scroll offset, the width being the
\* one the editor's scrolling assumes) the scroll offset stays.
C23_Original ==
  [][\A action \in {LEFT, RIGHT} :
       (WidgetActed(action) /\ widget.kind = "Edit") =>
         LET offset == widget'.child_it - widget.cur_line
         IN  (offset >= 0 /\ offset <= EditInnerWidth(widget) - 1)
               => widget'.cur_line = widget.cur_line]_vars

\* C24 as the specification states it: for every editor state and every
\* print width >= 3 the label is exactly width characters, starts and ends
\* with a bracket and holds the cursor marker '|' exactly once, at offset
\* (cursor index - scroll offset) inside the brackets.
C24_Original ==
  (lastOp.name = "print" /\ lastOp.col >= 3 /\ widget.kind = "Edit") =>
    LET size == lastOp.col
    IN  /\ Len(rendered) = size
        /\ <<rendered[1], rendered[size]>> \in {<<91, 93>>, <<60, 62>>}
        /\ {k \in 2 .. size - 1 : rendered[k] = 124}
             = {2 + (widget.child_it - widget.cur_line)}

\* C25: a range widget whose value starts inside [min, max] keeps it there
\* through every action and set_value: RIGHT at max and LEFT at min leave
\* the value as it is, and set_value with an argument outside the range
\* returns False and leaves the value as it is.
C25_RangeStaysInside ==
  [][(widget.kind = "RangeItem" /\ widget'.kind = "RangeItem"
        /\ lastOp'.name # "widget_new") =>
       /\ widget'.min <= widget'.current /\ widget'.current <= widget'.max
       /\ (WidgetActed(RIGHT) /\ widget.current = widget.max)
            => widget'.current = widget.current
       /\ (WidgetActed(LEFT) /\ widget.current = widget.min)
            => widget'.current = widget.current
       /\ lastOp'.name = "set_value" =>
            IF lastOp'.text[1] < widget.min \/ lastOp'.text[1] > widget.max
              THEN mrv' = FALSE /\ widget'.current = widget.current
              ELSE mrv' = TRUE /\ widget'.current = lastOp'.text[1]]_vars

C25_Witness ==
  /\ lastOp.name = "set_value" /\ widget.kind = "RangeItem"
  /\ lastOp.text = <<RangeMax + 1>>
  /\ mrv = FALSE
  /\ widget.current = RangeMax

RECURSIVE Repeated(_, _, _)
\* the widget after the same action k times
Repeated(w, action, k) ==
  IF k = 0 THEN w ELSE Repeated(LeafAction(w, action).w, action, k - 1)

\* C26: an enumeration widget with n >= 1 options keeps its position in
\* 0..n-1; RIGHT takes it to (pos+1) mod n and LEFT to (pos-1) mod n, so
\* LEFT after RIGHT restores the position and n RIGHTs in a row come back
\* to where they started; constructing it with no options raises an error.
C26_EnumWraps ==
  [][/\ widget'.kind = "EnumItem" =>
          LET n == Len(widget'.positions)
          IN  /\ n >= 1
              /\ widget'.pos \in 0 .. n - 1
              /\ (WidgetActed(RIGHT) /\ widget.kind = "EnumItem")
                   => widget'.pos = (widget.pos + 1) % n
              /\ (WidgetActed(LEFT) /\ widget.kind = "EnumItem")
                   => widget'.pos = (widget.pos + n - 1) % n
              /\ Repeated(Repeated(widget', RIGHT, 1), LEFT, 1).pos = widget'.pos
              /\ Repeated(widget', RIGHT, n).pos = widget'.pos
     /\ (lastOp'.name = "widget_new" /\ lastOp'.text[1].kind = "EnumItem"
           /\ Len(lastOp'.text[1].positions) = 0)
          => raised' = ValueError /\ widget' = widget]_vars

C26_Witness ==
  /\ lastOp.name = "action" /\ lastOp.run = LEFT
  /\ widget.kind = "EnumItem" /\ Len(widget.positions) = 3
  /\ widget.pos = 2

\* the (h, m, s) value of a time widget with v added to its selected field,
\* modulo 24 for the hour and modulo 60 for minute and second
TimeStepped(w, v) ==
  <<IF w.it = 0 THEN (w.h + 24 + v) % 24 ELSE w.h,
    IF w.it = 1 THEN (w.m + 60 + v) % 60 ELSE w.m,
    IF w.it = 2 THEN (w.s + 60 + v) % 60 ELSE w.s>>

\* C27 as the specification states it: on the time widget RIGHT adds one to
\* and LEFT takes one off the sub-field selected for editing, modulo 24 for
\* hours and modulo 60 for minutes and seconds, so that LEFT after RIGHT
\* restores (h, m, s); OK moves the selection hour, minute, second, hour.
C27_Original ==
  [][(widget.kind = "TimeItem" /\ widget'.kind = "TimeItem") =>
       /\ WidgetActed(RIGHT) =>
            <<widget'.h, widget'.m, widget'.s>> = TimeStepped(widget, 1)
       /\ WidgetActed(LEFT) =>
            <<widget'.h, widget'.m, widget'.s>> = TimeStepped(widget, 0 - 1)
       /\ WidgetActed(OK) => widget'.it = (widget.it + 1) % 3]_vars

(***************************************************************************)
(* Properties of the buffered screen under unusual input.                  *)
(***************************************************************************)
\* the printable Latin-1 characters: U+0020..U+007E and U+00A0..U+00FF
Printable(ch) == (32 <= ch /\ ch <= 126) \/ (160 <= ch /\ ch <= 255)

\* C28 (as stated): on refresh, every buffer character that is not in the
\* glyph catalog and lies outside the printable Latin-1 range (control codes
\* 0x00-0x1F and 0x7F-0x9F, code points above 0xFF) is sent to the driver as
\* the code of '?'.
C28_Original ==
  lastOp.name = "flush" =>
    \A k \in Writes(calls) :
      (buf[calls[k].cell] \notin Catalog /\ ~Printable(buf[calls[k].cell]))
        => calls[k].code = Question

\* C29 (as stated): the first flush() after construction, the shadow still
\* holding its initial filler in every cell, issues a write_char for every
\* one of the cols*rows cells, whatever the caller wrote before it.
C29_Original ==
  [][(/\ lastOp'.name = "flush" /\ ~lastOp'.failed
      /\ shadow = [i \in Cells |-> NUL])
       => \A i \in Cells : WritesTo(calls', i) # {}]_vars

\* C30 (as stated): clear_line(row) with row < 0 or row >= rows leaves every
\* buffer cell unchanged instead of clearing some other row.
C30_Original ==
  [][(/\ lastOp'.name = "clear_line"
      /\ (lastOp'.row < 0 \/ lastOp'.row >= Rows))
       => buf' = buf]_vars

(***************************************************************************)
(* Properties of init().                                                   *)
(***************************************************************************)
\* the nibble the data pins of an expander byte carry
NibbleOf(m, byte) ==
  (IF Bit(byte, m.d4) THEN 1 ELSE 0) + (IF Bit(byte, m.d5) THEN 2 ELSE 0)
    + (IF Bit(byte, m.d6) THEN 4 ELSE 0) + (IF Bit(byte, m.d7) THEN 8 ELSE 0)

\* the backlight pin of an expander byte drives the backlight on
BacklightOn(m, byte) == Bit(byte, m.bl) = m.bl_active_high

\* the nibbles of init(): 0x3 0x3 0x3 0x2, then function set, 0x08, 0x01,
\* 0x06 and 0x0C, high nibble first
InitNibbles ==
  <<3, 3, 3, 2, 2, IF Rows > 1 THEN 8 ELSE 0, 0, 8, 0, 1, 0, 6, 0, 12>>

InitReturned == lastOp.name = "lcd.init" /\ raised = NoError

\* C31: init() emits, in this order and with nothing in between, a register
\* write that carries only the backlight, the four single nibbles 0x3, 0x3,
\* 0x3, 0x2 with RS low, then the command bytes function set (0x28 for more
\* than one row, else 0x20), 0x08, 0x01, 0x06 and 0x0C; afterwards the linear
\* cursor index is 0 and the backlight state is on, whatever they were.
C31_InitSequence ==
  InitReturned =>
    /\ Len(bus) = 1 + 3 * Len(InitNibbles)
    /\ BacklightOn(mapping, bus[1])
    /\ NibbleOf(mapping, bus[1]) = 0
    /\ \A pin \in {mapping.rs, mapping.rw, mapping.e} : ~Bit(bus[1], pin)
    /\ \A k \in 1 .. Len(InitNibbles) :
         \A t \in 1 .. 3 :
           LET byte == bus[1 + 3 * (k - 1) + t]
           IN  /\ NibbleOf(mapping, byte) = InitNibbles[k]
               /\ Bit(byte, mapping.e) = (t = 2)
               /\ ~Bit(byte, mapping.rs)
               /\ ~Bit(byte, mapping.rw)
               /\ BacklightOn(mapping, byte)
    /\ calls = <<[op |-> "nibble", value |-> 3], [op |-> "nibble", value |-> 3],
                 [op |-> "nibble", value |-> 3], [op |-> "nibble", value |-> 2],
                 Command(FunctionSet(Rows)), Command(8), Command(1),
                 Command(6), Command(12)>>
    /\ FunctionSet(1) = 32 /\ FunctionSet(2) = 40
    /\ it = 0
    /\ backlight_on

\* init() with the backlight switched off and the cursor on the last cell,
\* on a backpack whose backlight is active low
C31_Witness ==
  /\ InitReturned
  /\ lastOp.text = <<Size - 1, 0>>
  /\ mapping = ActiveLow
  /\ bus[1] = 0 /\ bus[2] = 48 /\ bus[3] = 50
  /\ it = 0 /\ backlight_on

(***************************************************************************)
(* Properties of the calls of one flush().                                 *)
(***************************************************************************)
\* the write_char before call k of the log, 0 when there is none
PrevWrite(cs, k) == Max({0} \cup {j \in Writes(cs) : j < k})

\* C32: in flush() a set_cursor precedes the write of a changed cell i
\* exactly when a glyph was programmed for that cell, or the cell written
\* before it in this flush is not i-1, or i is the first column of a row; it
\* names the cell, nothing else comes between two writes, and every
\* create_char is followed by a set_cursor before the next write_char.  So a
\* run of k neighbouring changed cells of one row without glyph programming
\* costs one set_cursor and k write_char calls.
C32_CursorBeforeWrite ==
  FlushReturned =>
    /\ \A k \in Writes(calls) :
         LET p == PrevWrite(calls, k)
             i == calls[k].cell
             programmed == \E c \in Creates(calls) : p < c /\ c < k
             cursor == k > 1 /\ calls[k - 1].op = "set_cursor"
         IN  /\ cursor <=> \/ programmed
                           \/ p = 0
                           \/ calls[p].cell # i - 1
                           \/ i % Cols = 0
             /\ cursor => /\ calls[k - 1].col = i % Cols
                          /\ calls[k - 1].row = i \div Cols
             /\ \A j \in (p + 1) .. (k - 1) :
                  \/ j = k - 1 /\ calls[j].op = "set_cursor"
                  \/ j = k - 2 /\ calls[j].op = "create_char"
    /\ \A c \in Creates(calls) :
         c < Len(calls) /\ calls[c + 1].op = "set_cursor"
    /\ Len(calls) > 0 => calls[Len(calls)].op = "write_char"

\* a flush that programs a glyph in row 0 and writes the whole of the last
\* row with one set_cursor
C32_Witness ==
  /\ FlushReturned
  /\ Creates(calls) # {}
  /\ \E k \in Writes(calls) :
       /\ calls[k].cell = Size - 1
       /\ \A j \in 1 .. (Cols - 1) :
            calls[k - j].op = "write_char" /\ calls[k - j].cell = Size - 1 - j
       /\ calls[k - Cols].op = "set_cursor"

(***************************************************************************)
(* Properties of a flush() cut short by a bus failure.                     *)
(***************************************************************************)
\* C33 (as stated): a shadow cell is updated only after the driver write for
\* that cell has succeeded, so when a bus failure ends flush() at a cell the
\* shadow of that cell still differs from the buffer (and the next flush()
\* writes the cell again).
C33_Original ==
  (lastOp.name = "flush" /\ lastOp.failed) => shadow[FailCell] # buf[FailCell]

(***************************************************************************)
(* Properties of nested submenus.                                          *)
(***************************************************************************)
\* the number of submenu levels open below menu m
RECURSIVE OpenDepth(_)
OpenDepth(m) == IF m.sub THEN 1 + OpenDepth(Focused(m)) ELSE 0

\* C35 (as stated): one BREAK given to the root menu closes exactly one
\* submenu level, the innermost open one, at every nesting depth of open
\* submenus; every outer level that was open stays open.
C35_Original ==
  [][(MenuActed(BREAK) /\ OpenDepth(menu) >= 1)
       => OpenDepth(menu') = OpenDepth(menu) - 1]_vars

(***************************************************************************)
(* Properties of the text editor under other actions.                      *)
(***************************************************************************)
EditTextKept(e, f) ==
  /\ f.input = e.input
  /\ f.children_num = e.children_num
  /\ f.child_it = e.child_it

\* C36 (as stated): only DIGIT(code) actions insert into the text editor:
\* OK, NONE, UP or DOWN given to an Edit widget, or OK given to a menu whose
\* focused line is the Edit widget, leave its byte buffer, length and cursor
\* index unchanged.
C36_Original ==
  [][/\ \A action \in OtherKeys :
          (WidgetActed(action) /\ widget.kind = "Edit")
            => EditTextKept(widget, widget')
     /\ (/\ MenuActed(OK)
         /\ ~menu.sub /\ menu.lines # <<>>
         /\ Focused(menu).kind = "Edit")
          => EditTextKept(Focused(menu), Focused(menu'))]_vars

(***************************************************************************)
(* Properties of the driver's cursor against the controller.               *)
(***************************************************************************)
\* C37 (as stated): back() from linear index k writes a blank to cell
\* (k - 1) mod size and leaves the linear index at (k - 1) mod size.
C37_Original ==
  [][lastOp'.name = "back"
       => /\ ctrl'.ddram[(it - 1) % Size] = Blank
          /\ it' = (it - 1) % Size]_vars

\* C38 (as stated): after any sequence of set_cursor, gotoxy, line1, line2,
\* clear, home, up, down, curleft, curright and data_it the linear index is
\* in 0 .. cols*rows - 1 and the address counter of the controller is
\* row_offset[index div cols] + index mod cols.
C38_Original ==
  lastOp.name # "back"
    => /\ it \in Cells
       /\ ~ctrl.cg
       /\ ctrl.ac = CellAddr(it)

(***************************************************************************)
(* The display against the buffer.                                         *)
(***************************************************************************)
\* display cell i shows character ch: its DDRAM byte is the code of ch, or a
\* CGRAM slot that holds the catalog pattern of ch
CellShows(c, i, ch) ==
  \/ c.ddram[i] = ch
  \/ /\ ch \in Catalog
     /\ c.ddram[i] \in 0 .. NumSlots - 1
     /\ c.cgram[c.ddram[i]] = DynCharset[ch].pattern

\* C34 (as stated): with dynamic characters, no bus failure and at most 8
\* distinct catalog characters in the buffer at every flush, after each flush
\* every display cell shows the character the buffer holds for it.
C34_Original ==
  (FlushReturned /\ use_dynamic_chars
     /\ Cardinality({buf[i] : i \in Cells} \cap Catalog) <= NumSlots)
    => \A i \in Cells : CellShows(ctrl, i, buf[i])

(***************************************************************************)
(* The fields of the text editor.                                          *)
(***************************************************************************)
\* C40: for a text editor created empty or initialised with Edit.set, after
\* any sequence of actions 0 <= cur_line <= child_it <= children_num <=
\* max_len - 1, and every position of input at or beyond children_num holds 0.
C40_EditFields ==
  widget.kind = "Edit"
    => /\ 0 <= widget.cur_line
       /\ widget.cur_line <= widget.child_it
       /\ widget.child_it <= widget.children_num
       /\ widget.children_num <= widget.max_len - 1
       /\ Len(widget.input) = widget.max_len
       /\ \A k \in 1 .. widget.max_len :
            k > widget.children_num => widget.input[k] = 0

\* an editor typed full, scrolled, its cursor inside the text
C40_Witness ==
  /\ widget.kind = "Edit"
  /\ lastOp.name = "action"
  /\ widget.children_num = widget.max_len - 2
  /\ widget.cur_line > 0
  /\ widget.child_it < widget.children_num

(***************************************************************************)
(* The marker row of a rendered menu.                                      *)
(***************************************************************************)
Marked(row) == Len(row) >= 2 /\ SubSeq(row, 1, 2) = <<62, Blank>>

\* C39: for a non-empty menu with a constant rows hint h and no submenu
\* active, 0 <= child_it < n and 0 <= cur_line <= min(h - 1, n - 1) after any
\* sequence of actions, and render(cols, h) with cols >= 2 has "> " at the
\* start of exactly one row, row cur_line, which shows the focused line.
C39_MarkerRow ==
  (~menu.sub /\ menu.lines # <<>>)
    => LET n == Len(menu.lines)
           h == RowsHint(menu)
       IN  /\ menu.child_it \in 0 .. n - 1
           /\ menu.cur_line \in 0 .. Min2(h - 1, n - 1)
           /\ (lastOp.name = "render" /\ lastOp.col >= 2 /\ lastOp.row = h)
                => /\ Len(rendered) = h
                   /\ \A k \in 1 .. h : Marked(rendered[k]) <=> k - 1 = menu.cur_line
                   /\ rendered[menu.cur_line + 1]
                        = Fit(<<62, Blank>> \o LinePrint(Focused(menu), lastOp.col - 2),
                              lastOp.col)

\* the focus wrapped to the first of four lines while the marker stays on the
\* last of three rows
C39_Witness ==
  /\ ~menu.sub
  /\ lastOp.name = "render" /\ lastOp.col = 6 /\ lastOp.row = 3
  /\ Len(menu.lines) = 4
  /\ menu.child_it = 0
  /\ menu.cur_line = 2
  /\ Marked(rendered[3])

====
